---- MODULE Spec2Model ----
(***************************************************************************)
(* Debrid resolution and availability engine of torrentio-scraper          *)
(* (RealDebrid provider, src/addon/addon.js lines 244-584).                *)
(*                                                                         *)
(* The state machines modelled:                                            *)
(*   - the torrent lifecycle resolver (resolve / _resolve and the helpers  *)
(*     it calls); every provider call is one step, answered by the         *)
(*     provider with a nondeterministic outcome;                           *)
(*   - the batch availability client (_getInstantAvailable) with its       *)
(*     normalisation (getCachedIds) and the availability cache;            *)
(*   - the stream handler (defineStreamHandler) with its response cache    *)
(*     and the limiter that admits its repository queries;                 *)
(*   - the cache module (cacheWrap on the stream cache and the url cache)  *)
(*     and the tagging of a stream list by availability (getCachedStreams).*)
(***************************************************************************)
EXTENDS Integers, Sequences, FiniteSets, TLC

VARIABLES
    \* ---- provider account (remote state, read and changed by provider calls)
    jobs,        \* sequence of remote torrent jobs; a job's id is its position
    \* ---- one resolve call
    args,        \* the call's arguments: infoHash, fileIndex, cachedEntryInfo
    pc,          \* position of the resolve call
    torrentId,   \* id of the job the call currently works on
    selCtx,      \* caller of _selectTorrentFiles: "resolve" or "recreate"
    reCtx,       \* caller of _recreateTorrentId: "retry" or "notselected"
    pollCounter, \* pollCounter of _openTorrent
    fileLink,    \* link handed to _unrestrictFileLink
    recreations, \* number of _recreateTorrentId calls of this resolve call
    trace,       \* provider calls issued by this resolve call, in order
    result,      \* outcome of the resolve call
    history,     \* summaries of the finished resolve calls
    slept        \* milliseconds slept by the current _openTorrent loop

resolveVars == <<jobs, args, pc, torrentId, selCtx, reCtx, pollCounter,
                 fileLink, recreations, trace, result, history, slept>>

VARIABLES
    \* ---- availability cache (shared by all availability checks)
    avCache,       \* infoHash -> availability record, or no entry
    \* ---- one availability check (_getInstantAvailable and its retries)
    hashes,        \* the hashes of the check, in request order
    avPc,          \* position of the check
    retries,       \* retries of the current attempt
    maxChunkSize,  \* maxChunkSize of the current attempt
    cachedResults, \* the cache entries read at the start of the attempt
    hashBatches,   \* the batches queried by the current attempt
    answers,       \* per batch: pending, or its processed response
    avCalls,       \* instant-availability calls issued by the check, in order
    avCaught,      \* the errors caught by the attempts of the check, in order
    avResult       \* outcome of the check

availVars == <<avCache, hashes, avPc, retries, maxChunkSize, cachedResults,
               hashBatches, answers, avCalls, avCaught, avResult>>

VARIABLES
    \* ---- one normalisation of a provider answer (getCachedIds)
    hosterResults, \* the provider's answer for one hash
    cachedIds,     \* the availability record computed from it
    normPc         \* position of the normalisation

normVars == <<hosterResults, cachedIds, normPc>>

VARIABLES
    \* ---- the stream handler, its response cache and its limiter
    streamCache,   \* the ids whose stream list is in the response cache
    NO_CACHE,      \* the NO_CACHE setting of the deployment
    reqs,          \* the stream requests received: id, position, outcome
    queue,         \* requests waiting in the limiter, oldest first
    running,       \* requests whose task is executing in the limiter
    playPc,        \* position of a play request (a call of resolve)
    ioLog          \* the repository and provider I/O performed, each with the
                   \* request it is for and whether that request's task was
                   \* executing in the limiter

VARIABLES
    \* ---- the caches of the cache module and the calls of cacheWrap
    remoteCache,   \* the cache of stream lists, or no cache at all
    memoryCache,   \* the cache of resolved urls
    now,           \* the time, in seconds since the caches were created
    wraps,         \* the calls of cacheWrapStream and cacheWrapResolvedUrl
    cacheLog       \* the reads and writes made in the caches

cacheVars == <<remoteCache, memoryCache, now, wraps, cacheLog>>

schedVars == <<streamCache, NO_CACHE, reqs, queue, running, playPc, ioLog,
               cacheVars>>

VARIABLES
    \* ---- one call of getCachedStreams
    streams,       \* the streams to tag: infoHash and fileIdx of each
    available,     \* what _getInstantAvailable returned for their hashes
    mochStreams,   \* what getCachedStreams returns
    mochPc         \* position of the call

mochVars == <<streams, available, mochStreams, mochPc>>

vars == <<resolveVars, availVars, normVars, schedVars, mochVars>>

----------------------------------------------------------------------------
(* Bounds of the model *)

\* resolve calls made in sequence on one account
MaxCalls == 2
\* job recreations explored within one resolve call
MaxRecreate == 2
\* copies of a torrent in one provider answer
MaxCopies == 3

(* Program constants *)

MIN_SIZE == 5 * 1024 * 1024
maxPollNumber == 15
pollRate == 2000

----------------------------------------------------------------------------
(* Status classification *)

Statuses ==
    {"magnet_error", "error", "magnet_conversion", "waiting_files_selection",
     "queued", "downloading", "uploading", "downloaded", "dead", "virus"}

statusError(status) == status \in {"error", "magnet_error"}

statusMagnetError(status) == status = "magnet_error"

statusOpening(status) == status = "magnet_conversion"

statusWaitingSelection(status) == status = "waiting_files_selection"

statusDownloading_noQueued(status) == status \in {"downloading", "uploading"}

statusDownloading(status) == status \in {"downloading", "uploading", "queued"}

\* the ready statuses without 'dead'
statusReady_downloadedOnly(status) == status = "downloaded"

statusReady(status) == status \in {"downloaded", "dead"}

\* the access-denied codes without 20
accessDeniedError_only9(code) == code = 9

accessDeniedError(code) == code \in {9, 20}

\* file name extensions recognised as video / archive
isVideo(ext) == ext \in {"mkv", "mp4", "avi"}

isArchive(ext) == ext \in {"rar", "zip"}

ToLowerCase(hash) ==
    CASE hash = "H1" -> "h1"
      [] hash = "H2" -> "h2"
      [] OTHER -> hash

----------------------------------------------------------------------------
(* The provider account *)

MB == 1024 * 1024

\* Files of the torrent behind the requested infoHash, in provider order;
\* a file's id is its 1-based position (job-info lists every file of the
\* torrent with its selected flag).
TorrentFiles ==
    << [ext |-> "mkv", bytes |-> 700 * MB],
       [ext |-> "nfo", bytes |-> 1024],
       [ext |-> "mkv", bytes |-> 3 * MB],
       [ext |-> "mkv", bytes |-> 5 * MB],
       [ext |-> "mkv", bytes |-> 800 * MB],
       [ext |-> "mkv", bytes |-> 1200 * MB] >>

FileIds == 1..Len(TorrentFiles)

RECURSIVE SortedSeq(_)
\* the elements of a finite set of integers in ascending order
SortedSeq(S) ==
    IF S = {} THEN <<>>
    ELSE LET m == CHOOSE x \in S : \A y \in S : x <= y
         IN  <<m>> \o SortedSeq(S \ {m})

\* Links a provider may expose once a job is downloaded: one link per
\* selected file (in file order), a single combined link, or no link at
\* all.  A link is <<job id, file id>>, file id 0 for the combined link; a
\* blank link is the empty sequence.
PerFileLinks(id, selected) ==
    LET s == SortedSeq(selected) IN [k \in 1..Len(s) |-> <<id, s[k]>>]

LinkChoices(id, selected) ==
    {PerFileLinks(id, selected), << <<id, 0>> >>, <<>>}

\* Statuses a job in the given status may show at its next read.
Progress(status) ==
    CASE status = "magnet_conversion" ->
            {"magnet_conversion", "waiting_files_selection", "magnet_error"}
      [] status = "queued" -> {"queued", "downloading", "downloaded", "error"}
      [] status = "downloading" -> {"downloading", "uploading", "downloaded", "error"}
      [] status = "uploading" -> {"uploading", "downloaded"}
      [] status = "downloaded" -> {"downloaded", "dead"}
      [] OTHER -> {status}

\* What a read of job `id` may return (and leave behind on the provider).
Observe(job, id) ==
    UNION {
        {[job EXCEPT !.status = s, !.links = l] :
            l \in IF statusReady(s) /\ ~statusReady(job.status)
                  THEN LinkChoices(id, job.selected)
                  ELSE {job.links}} :
        s \in Progress(job.status)}

\* torrents.get(0, 1): the account's jobs, most recent first
Reverse(seq) == [i \in 1..Len(seq) |-> seq[Len(seq) + 1 - i]]

\* torrents.addMagnet: the job the provider creates for a magnet link
NewJob(hash) ==
    [hash |-> hash, status |-> "magnet_conversion", selected |-> {}, links |-> <<>>]

\* torrents.selectFiles answered ok: the listed files are selected and the
\* job is queued for download
Selected(job, ids) ==
    [job EXCEPT !.selected = ids \cap FileIds, !.status = "queued"]

----------------------------------------------------------------------------
(* Pure helpers of the resolver *)

\* a _findTorrent that keeps the jobs in an error status
foundTorrents_withErred(listed, js, infoHash) ==
    LET Match(id) == ToLowerCase(js[id].hash) = infoHash
    IN  SelectSeq(listed, Match)

\* _findTorrent: the listed jobs (most recent first) whose hash is the
\* requested one and whose status is no error status
foundTorrents(listed, js, infoHash) ==
    LET Match(id) == /\ ToLowerCase(js[id].hash) = infoHash
                     /\ ~statusError(js[id].status)
    IN  SelectSeq(listed, Match)

\* _findBestFitTorrent on several matches: among the jobs whose file
\* fileIndex + 1 is selected, the first with the most links (the sort is
\* stable), else the first match
findBestFitTorrent(torrents, js, a) ==
    LET Fits(id) == a.hasIndex /\ (a.fileIndex + 1) \in js[id].selected
        bestFitTorrents == SelectSeq(torrents, Fits)
        first == CHOOSE k \in 1..Len(bestFitTorrents) :
                    /\ \A m \in 1..Len(bestFitTorrents) :
                          Len(js[bestFitTorrents[m]].links) <= Len(js[bestFitTorrents[k]].links)
                    /\ \A m \in 1..(k - 1) :
                          Len(js[bestFitTorrents[m]].links) < Len(js[bestFitTorrents[k]].links)
    IN  IF bestFitTorrents # <<>> THEN bestFitTorrents[first]
        ELSE IF torrents # <<>> THEN torrents[1]
        ELSE 0

\* the hint check without the test for the literals 'null' and 'undefined'
hintUsed_anyString(cachedFileIds) ==
    cachedFileIds.kind # "absent"

\* _createTorrentId: whether the cached file ids are sent to select-files
hintUsed(cachedFileIds) ==
    /\ cachedFileIds.kind # "absent"
    /\ cachedFileIds.kind \notin {"null", "undefined"}

\* _selectTorrentFiles: the file ids sent to select-files
videoFileIds(hasIndex, fileIndex) ==
    IF hasIndex THEN {fileIndex + 1}
    ELSE {i \in FileIds : isVideo(TorrentFiles[i].ext) /\ TorrentFiles[i].bytes > MIN_SIZE}

\* _unrestrictLink: id of the target file, 0 when there is none
targetFile(job, a) ==
    IF a.hasIndex /\ (a.fileIndex + 1) \in FileIds THEN a.fileIndex + 1
    ELSE IF job.selected = {} THEN 0
    ELSE CHOOSE f \in job.selected : \A g \in job.selected :
            \/ TorrentFiles[f].bytes > TorrentFiles[g].bytes
            \/ TorrentFiles[f].bytes = TorrentFiles[g].bytes /\ f <= g

\* selectedFiles.indexOf(targetFile), 0-based
rankOf(job, target) == Cardinality({g \in job.selected : g < target})

\* the link of the target file taken by its position among the selected
\* files even when the job has a single link
fileLinkOf_byRankOnly(job, target) ==
    LET k == rankOf(job, target) + 1
    IN  IF k > Len(job.links) \/ Len(job.links[k]) = 0
        THEN [ok |-> FALSE, link |-> <<>>]
        ELSE [ok |-> TRUE, link |-> job.links[k]]

\* the first link of the job whatever the target file
fileLinkOf_firstLink(job, target) ==
    IF Len(job.links) = 0 \/ Len(job.links[1]) = 0
    THEN [ok |-> FALSE, link |-> <<>>]
    ELSE [ok |-> TRUE, link |-> job.links[1]]

\* _unrestrictLink: the link of the target file; ok is FALSE when the link
\* is missing or blank
fileLinkOf(job, target) ==
    LET k == IF Len(job.links) = 1 THEN 1 ELSE rankOf(job, target) + 1
    IN  IF k > Len(job.links) \/ Len(job.links[k]) = 0
        THEN [ok |-> FALSE, link |-> <<>>]
        ELSE [ok |-> TRUE, link |-> job.links[k]]

----------------------------------------------------------------------------
(* Outcomes of a resolve call *)

NoResult == [kind |-> "none", reason |-> "", url |-> <<>>]
Url(link) == [kind |-> "url", reason |-> "", url |-> link]
Pending(reason) == [kind |-> "pending", reason |-> reason, url |-> <<>>]
Rejected == [kind |-> "rejected", reason |-> "ResolveFailed", url |-> <<>>]

\* resolve's catch: an access-denied error becomes FAILED_ACCESS, any other
\* error rejects.  code 0 stands for an error without a provider code.
Caught(code) ==
    IF accessDeniedError(code) THEN Pending("FAILED_ACCESS") ELSE Rejected

\* error codes a provider call may be answered with (0 is success)
ErrorCodes == {8, 9, 19, 20}
Outcomes == {0} \cup ErrorCodes

\* one provider call in the trace: the function issuing it, the provider
\* operation, the job, file ids or link it is about, the answer's error
\* code (0 for success) and, for a read, the status it shows (for an
\* unrestrict, the extension of the download)
Call(by, op, job, ids, link, out, status) ==
    [by |-> by, op |-> op, job |-> job, ids |-> ids, link |-> link, out |-> out,
     status |-> status]

----------------------------------------------------------------------------
(* State changes shared by the steps of a resolve call *)

\* the call goes on at position p
Continue(p, t, sc, rc, pl, fl, rn, tr, js) ==
    /\ pc' = p
    /\ torrentId' = t
    /\ selCtx' = sc
    /\ reCtx' = rc
    /\ pollCounter' = pl
    /\ fileLink' = fl
    /\ recreations' = rn
    /\ trace' = tr
    /\ jobs' = js
    /\ slept' = 0
    /\ UNCHANGED <<args, result, history, availVars, normVars, schedVars, mochVars>>

\* the call goes on at position p, its locals unchanged
Goto(p, tr, js) ==
    Continue(p, torrentId, selCtx, reCtx, pollCounter, fileLink, recreations, tr, js)

\* what is kept of a finished call: its outcome, the number of add-magnet
\* calls it issued, the number of provider calls answered with an error,
\* whether the job was located by the listing, the job and status read by
\* _resolve with the job's selected files and links, and the link and
\* answer of its first unrestrict call
Summary(res, tr, js) ==
    LET adds == SelectSeq(tr, LAMBDA c : c.op = "add")
        created == SelectSeq(tr, LAMBDA c : c.by = "_createTorrentId")
        infos == SelectSeq(tr, LAMBDA c : c.by = "_resolve" /\ c.out = 0)
        failed == SelectSeq(tr, LAMBDA c : c.out # 0)
        unrestricts == SelectSeq(tr, LAMBDA c : c.op = "unrestrict")
    IN  [result |-> res,
         adds |-> Len(adds),
         errors |-> Len(failed),
         located |-> created = <<>>,
         job |-> IF infos = <<>> THEN 0 ELSE infos[1].job,
         status |-> IF infos = <<>> THEN "" ELSE infos[1].status,
         selected |-> IF infos = <<>> THEN {} ELSE js[infos[1].job].selected,
         links |-> IF infos = <<>> THEN <<>> ELSE js[infos[1].job].links,
         link |-> IF unrestricts = <<>> THEN <<>> ELSE unrestricts[1].link,
         answer |-> IF unrestricts = <<>> THEN "none"
                    ELSE IF unrestricts[1].out # 0 THEN "error"
                    ELSE unrestricts[1].status]

\* the call ends with outcome res
End(res, tr, js) ==
    /\ pc' = "done"
    /\ result' = res
    /\ trace' = tr
    /\ jobs' = js
    /\ history' = Append(history, Summary(res, tr, js))
    /\ pollCounter' = 0
    /\ slept' = 0
    /\ UNCHANGED <<args, torrentId, selCtx, reCtx, fileLink, recreations,
                    availVars, normVars, schedVars, mochVars>>

\* _recreateTorrentId is entered by _retryCreateTorrent ("retry") or by
\* _unrestrictLink for an unselected target ("notselected")
Recreate(ctx, tr, js) ==
    /\ recreations < MaxRecreate
    /\ Continue("recreate_add", torrentId, selCtx, ctx, pollCounter, fileLink,
                recreations + 1, tr, js)

\* an _unrestrictLink that takes the link of the target file without
\* testing that the file is selected
unrestrictLink_noSelectedTest(id, tr, js) ==
    LET torrent == js[id]
        target == targetFile(torrent, args)
        fl == fileLinkOf(torrent, target)
    IN  IF target = 0 THEN End(Rejected, tr, js)
        ELSE IF ~fl.ok THEN End(Rejected, tr, js)
        ELSE Continue("unrestrict", id, selCtx, reCtx, pollCounter, fl.link,
                      recreations, tr, js)

\* _unrestrictLink(RD, torrent, fileIndex) on the job just read
unrestrictLink(id, tr, js) ==
    LET torrent == js[id]
        target == targetFile(torrent, args)
        fl == fileLinkOf(torrent, target)
    IN  IF target = 0 THEN End(Rejected, tr, js)
        ELSE IF target \notin torrent.selected THEN Recreate("notselected", tr, js)
        ELSE IF ~fl.ok THEN End(Rejected, tr, js)
        ELSE Continue("unrestrict", id, selCtx, reCtx, pollCounter, fl.link,
                      recreations, tr, js)

\* a rejection inside _selectTorrentFiles: _resolve turns it into
\* FAILED_OPENING, _recreateTorrentId lets it reach resolve's catch
selectRejected(code, tr, js) ==
    IF selCtx = "resolve" THEN End(Pending("FAILED_OPENING"), tr, js)
    ELSE End(Caught(code), tr, js)

\* the fileIndex _selectTorrentFiles receives: _resolve passes none,
\* _recreateTorrentId passes the call's fileIndex
selectFileIndex(ctx, a) ==
    IF ctx = "resolve" THEN [hasIndex |-> FALSE, fileIndex |-> 0]
    ELSE [hasIndex |-> a.hasIndex, fileIndex |-> a.fileIndex]

RECURSIVE InfoCalls(_, _, _)
\* trace entries of the job-info calls _findBestFitTorrent issues at once:
\* one per match; `failed` (0 for none) is the match answered with `code`
InfoCalls(torrents, failed, code) ==
    IF torrents = <<>> THEN <<>>
    ELSE <<Call("_findBestFitTorrent", "info", Head(torrents), {}, <<>>,
                IF Head(torrents) = failed THEN code ELSE 0, "")>>
         \o InfoCalls(Tail(torrents), failed, code)

----------------------------------------------------------------------------
(* Steps of a resolve call: one per provider call *)

\* the state in which resolve starts
Begin ==
    /\ pc' = "list"
    /\ torrentId' = 0
    /\ selCtx' = "resolve"
    /\ reCtx' = "retry"
    /\ pollCounter' = 0
    /\ fileLink' = <<>>
    /\ recreations' = 0
    /\ trace' = <<>>
    /\ result' = NoResult
    /\ slept' = 0
    /\ UNCHANGED <<jobs, args, history, availVars, normVars, schedVars, mochVars>>

\* resolve is called
StartCall ==
    /\ pc = "idle"
    /\ Begin

\* resolve is called again with the same arguments.  The sequences studied
\* are those of calls that created no job: a call that issued add-magnet
\* ends the sequence.
CallAgain ==
    /\ pc = "done"
    /\ Len(history) < MaxCalls
    /\ history[Len(history)].adds = 0
    /\ Begin

\* _findTorrent: torrents.get(0, 1), then the choice among the matches
ListJobs ==
    /\ pc = "list"
    /\ \E out \in Outcomes :
        LET tr == Append(trace, Call("_findTorrent", "list", 0, {}, <<>>, out, ""))
            found == foundTorrents(Reverse([i \in 1..Len(jobs) |-> i]), jobs, args.infoHash)
        IN  IF out # 0 THEN Goto("add", tr, jobs)
            ELSE IF Len(found) = 1
            THEN Continue("info", found[1], selCtx, reCtx, pollCounter, fileLink,
                          recreations, tr, jobs)
            ELSE IF Len(found) = 0 THEN Goto("add", tr, jobs)
            ELSE Goto("bestfit", tr, jobs)

\* _findBestFitTorrent on several matches: job-info of every match, joined
BestFitInfos ==
    /\ pc = "bestfit"
    /\ LET found == foundTorrents(Reverse([i \in 1..Len(jobs) |-> i]), jobs, args.infoHash)
           matches == {found[k] : k \in 1..Len(found)}
       IN  \/ \E id \in matches, code \in ErrorCodes :
                Goto("add", trace \o InfoCalls(found, id, code), jobs)
           \/ Continue("info", findBestFitTorrent(found, jobs, args), selCtx, reCtx,
                       pollCounter, fileLink, recreations,
                       trace \o InfoCalls(found, 0, 0), jobs)

\* _createTorrentId: torrents.addMagnet
AddMagnet ==
    /\ pc = "add"
    /\ \E out \in Outcomes :
        LET tr == Append(trace, Call("_createTorrentId", "add", Len(jobs) + 1, {}, <<>>, out, ""))
        IN  IF out # 0 THEN End(Caught(out), tr, jobs)
            ELSE Continue(IF hintUsed(args.cachedFileIds) THEN "hint_select" ELSE "info",
                          Len(jobs) + 1, selCtx, reCtx, pollCounter, fileLink,
                          recreations, tr, Append(jobs, NewJob(args.infoHash)))

\* _createTorrentId: torrents.selectFiles with the cached file ids
HintSelect ==
    /\ pc = "hint_select"
    /\ \E out \in Outcomes :
        LET tr == Append(trace, Call("_createTorrentId", "select", torrentId, args.cachedFileIds.ids, <<>>, out, ""))
        IN  IF out # 0 THEN End(Caught(out), tr, jobs)
            ELSE Goto("info", tr,
                      [jobs EXCEPT ![torrentId] = Selected(@, args.cachedFileIds.ids)])

\* _resolve: torrents.info of the located or created job, then the dispatch
\* on its status
GetTorrentInfo ==
    /\ pc = "info"
    /\ \E out \in Outcomes :
        IF out # 0
        THEN End(Caught(out), Append(trace, Call("_resolve", "info", torrentId, {}, <<>>, out, "")), jobs)
        ELSE \E torrent \in Observe(jobs[torrentId], torrentId) :
            LET js == [jobs EXCEPT ![torrentId] = torrent]
                tr == Append(trace, Call("_resolve", "info", torrentId, {}, <<>>, 0, torrent.status))
            IN  IF statusReady(torrent.status) THEN unrestrictLink(torrentId, tr, js)
                ELSE IF statusDownloading(torrent.status)
                THEN End(Pending("DOWNLOADING"), tr, js)
                ELSE IF statusMagnetError(torrent.status)
                THEN End(Pending("FAILED_OPENING"), tr, js)
                ELSE IF statusError(torrent.status) THEN Recreate("retry", tr, js)
                ELSE IF statusWaitingSelection(torrent.status)
                THEN Continue("select", torrentId, "resolve", reCtx, pollCounter,
                              fileLink, recreations, tr, js)
                ELSE IF statusOpening(torrent.status)
                THEN Continue("open", torrentId, "resolve", reCtx, 0, fileLink,
                              recreations, tr, js)
                ELSE End(Rejected, tr, js)

\* the poll condition with the cap off by one
pollAgain_offByOne(status, counter) ==
    statusOpening(status) /\ counter <= maxPollNumber

\* _openTorrent: whether the job just read is polled again after a delay
pollAgain(status, counter) ==
    statusOpening(status) /\ counter < maxPollNumber

\* _openTorrent: torrents.info, then a delay and another poll while the job
\* is opening and pollCounter < maxPollNumber.  The trace keeps the poll
\* that ends the loop; the polls before it are counted by pollCounter and
\* the time slept by `slept`, both of which end with the loop.
OpenTorrent ==
    /\ pc = "open"
    /\ \E out \in Outcomes :
        IF out # 0
        THEN selectRejected(out, Append(trace, Call("_openTorrent", "info", torrentId, {}, <<>>, out, "")), jobs)
        ELSE \E torrent \in Observe(jobs[torrentId], torrentId) :
            LET js == [jobs EXCEPT ![torrentId] = torrent]
                tr == Append(trace, Call("_openTorrent", "info", torrentId, {}, <<>>, 0, torrent.status))
            IN  IF pollAgain(torrent.status, pollCounter)
                THEN /\ pollCounter' = pollCounter + 1
                     /\ slept' = slept + pollRate
                     /\ jobs' = js
                     /\ UNCHANGED <<args, pc, torrentId, selCtx, reCtx, fileLink,
                                    recreations, trace, result, history,
                                    availVars, normVars, schedVars, mochVars>>
                ELSE IF statusWaitingSelection(torrent.status)
                THEN Continue("select", torrentId, selCtx, reCtx, 0, fileLink,
                              recreations, tr, js)
                ELSE selectRejected(0, tr, js)

\* _selectTorrentFiles: torrents.selectFiles on a job waiting for selection
SelectFiles ==
    /\ pc = "select"
    /\ \E out \in Outcomes :
        LET fi == selectFileIndex(selCtx, args)
            ids == videoFileIds(fi.hasIndex, fi.fileIndex)
            tr == Append(trace, Call("_selectTorrentFiles", "select", torrentId, ids, <<>>, out, ""))
            js == [jobs EXCEPT ![torrentId] = Selected(@, ids)]
        IN  IF out # 0 THEN selectRejected(out, tr, jobs)
            ELSE IF selCtx = "resolve" THEN End(Pending("DOWNLOADING"), tr, js)
            ELSE IF reCtx = "retry" THEN Goto("retry_info", tr, js)
            ELSE End(Pending("DOWNLOADING"), tr, js)

\* _recreateTorrentId: torrents.addMagnet of a fresh job (no cached ids)
RecreateAdd ==
    /\ pc = "recreate_add"
    /\ \E out \in Outcomes :
        LET tr == Append(trace, Call("_recreateTorrentId", "add", Len(jobs) + 1, {}, <<>>, out, ""))
        IN  IF out # 0 THEN End(Caught(out), tr, jobs)
            ELSE Continue("open", Len(jobs) + 1, "recreate", reCtx, 0, fileLink,
                          recreations, tr, Append(jobs, NewJob(args.infoHash)))

\* _retryCreateTorrent: torrents.info of the recreated job
RetryInfo ==
    /\ pc = "retry_info"
    /\ \E out \in Outcomes :
        IF out # 0
        THEN End(Caught(out), Append(trace, Call("_retryCreateTorrent", "info", torrentId, {}, <<>>, out, "")), jobs)
        ELSE \E newTorrent \in Observe(jobs[torrentId], torrentId) :
            LET js == [jobs EXCEPT ![torrentId] = newTorrent]
                tr == Append(trace, Call("_retryCreateTorrent", "info", torrentId, {}, <<>>, 0, newTorrent.status))
            IN  IF statusReady(newTorrent.status) THEN unrestrictLink(torrentId, tr, js)
                ELSE End(Pending("FAILED_DOWNLOAD"), tr, js)

\* _unrestrictFileLink: unrestrict.link; the answer is a download of the
\* link with some file extension, or an error
Unrestrict ==
    /\ pc = "unrestrict"
    /\ \E out \in Outcomes :
        IF out = 0
        THEN \E ext \in {"mkv", "rar"} :
                End(IF isArchive(ext) THEN Pending("FAILED_RAR") ELSE Url(fileLink),
                    Append(trace, Call("_unrestrictFileLink", "unrestrict", torrentId, {}, fileLink, 0, ext)), jobs)
        ELSE LET tr == Append(trace, Call("_unrestrictFileLink", "unrestrict", torrentId, {}, fileLink, out, ""))
             IN  IF out = 19 THEN Recreate("retry", tr, jobs)
                 ELSE End(Caught(out), tr, jobs)

----------------------------------------------------------------------------
(* Initial states: an account with up to two jobs, and the call's arguments *)

Job(hash, status, selected, links) ==
    [hash |-> hash, status |-> status, selected |-> selected, links |-> links]

\* jobs of the requested torrent an account may hold before the call
MainJobs(id) ==
    {Job("h1", st, {}, <<>>) :
        st \in {"magnet_conversion", "waiting_files_selection", "magnet_error",
                "error", "virus"}}
    \cup {Job("h1", st, {5, 6}, <<>>) : st \in {"queued", "downloading", "uploading"}}
    \cup UNION {{Job("h1", "downloaded", sel, l) : l \in LinkChoices(id, sel)} :
                    sel \in {{5, 6}, {6}, {1, 5, 6}}}
    \cup {Job("h1", "dead", {6}, PerFileLinks(id, {6})),
          Job("h1", "downloaded", {6}, << <<>> >>)}

\* jobs of the requested torrent an account may hold beside another job
PairedJobs(id) ==
    {Job("h1", "downloaded", {5, 6}, PerFileLinks(id, {5, 6})),
     Job("h1", "downloaded", {6}, PerFileLinks(id, {6})),
     Job("h1", "downloaded", {1, 5, 6}, << <<id, 0>> >>),
     Job("h1", "downloading", {5, 6}, <<>>),
     Job("h1", "waiting_files_selection", {}, <<>>)}

\* a second job the account may hold
OtherJobs(id) ==
    {Job("h2", "downloaded", {6}, PerFileLinks(id, {6})),
     Job("H1", "downloaded", {1, 5, 6}, PerFileLinks(id, {1, 5, 6})),
     Job("h1", "error", {5, 6}, <<>>),
     Job("h1", "downloading", {5, 6}, <<>>)}

Accounts ==
    {<<>>}
    \cup {<<j>> : j \in MainJobs(1)}
    \cup {<<o, j>> : o \in OtherJobs(1), j \in PairedJobs(2)}
    \cup {<<j, o>> : j \in PairedJobs(1), o \in OtherJobs(2)}

\* arguments of resolve: fileIndex is 0-based or absent; cachedEntryInfo is
\* absent, the literal 'null' or 'undefined', or a comma list of file ids
Arguments ==
    {[infoHash |-> "h1", hasIndex |-> TRUE, fileIndex |-> 0, cachedFileIds |-> c] :
        c \in {[kind |-> "absent", ids |-> {}], [kind |-> "null", ids |-> {}],
               [kind |-> "undefined", ids |-> {}], [kind |-> "ids", ids |-> {5, 6}]}}
    \cup {[infoHash |-> "h1", hasIndex |-> TRUE, fileIndex |-> 5, cachedFileIds |-> c] :
        c \in {[kind |-> "absent", ids |-> {}], [kind |-> "ids", ids |-> {5, 6}]}}
    \cup {[infoHash |-> "h1", hasIndex |-> hi.has, fileIndex |-> hi.idx,
           cachedFileIds |-> [kind |-> "absent", ids |-> {}]] :
        hi \in {[has |-> FALSE, idx |-> 0], [has |-> TRUE, idx |-> 3]}}

\* the hashes availability is asked for
Hashes == {"h1", "h2", "h3"}

\* a hash without cache entry, and the entry holding an availability record
Absent == [present |-> FALSE, groups |-> <<>>]
Entry(groups) == [present |-> TRUE, groups |-> groups]

\* no availability check is under way
AvailIdle ==
    /\ avCache = [h \in Hashes |-> Absent]
    /\ hashes = <<>>
    /\ avPc = "idle"
    /\ retries = 3
    /\ maxChunkSize = 150
    /\ cachedResults = [h \in Hashes |-> Absent]
    /\ hashBatches = <<>>
    /\ answers = <<>>
    /\ avCalls = <<>>
    /\ avCaught = <<>>
    /\ avResult = [kind |-> "none", results |-> [h \in Hashes |-> Absent]]

\* the keys wrapped in either cache, and a key without entry
CacheKeys == {"k1", "k2"}

NoEntry == [present |-> FALSE, value |-> <<>>, createdAt |-> 0, ttl |-> 0]

\* a cache as caching() creates it, and the null of a cache never created
NewCache == [created |-> TRUE, entries |-> [k \in CacheKeys |-> NoEntry]]

NoCache == [created |-> FALSE, entries |-> [k \in CacheKeys |-> NoEntry]]

\* no call of cacheWrap was made on the caches of a deployment with caching
CacheIdle ==
    /\ remoteCache = NewCache
    /\ memoryCache = NewCache
    /\ now = 0
    /\ wraps = <<>>
    /\ cacheLog = {}

\* no request was received by the stream handler
SchedIdle ==
    /\ CacheIdle
    /\ streamCache = {}
    /\ NO_CACHE = FALSE
    /\ reqs = <<>>
    /\ queue = <<>>
    /\ running = {}
    /\ playPc = "idle"
    /\ ioLog = {}

\* a hash without entry in the map getCachedStreams returns
NoMoch ==
    [present |-> FALSE, cached |-> FALSE,
     url |-> [infoHash |-> "", cachedIds |-> [kind |-> "null", ids |-> {}],
              fileIdx |-> [has |-> FALSE, idx |-> 0]]]

\* no call of getCachedStreams is made
MochIdle ==
    /\ streams = <<>>
    /\ available = [kind |-> "unknown", results |-> [h \in Hashes |-> Absent]]
    /\ mochStreams = [kind |-> "none", map |-> [h \in Hashes |-> NoMoch]]
    /\ mochPc = "idle"

\* no normalisation is under way
NormIdle ==
    /\ hosterResults = [kind |-> "null", hosters |-> <<>>]
    /\ cachedIds = <<>>
    /\ normPc = "idle"

\* no resolve call has been made
InitCall ==
    /\ pc = "idle"
    /\ torrentId = 0
    /\ selCtx = "resolve"
    /\ reCtx = "retry"
    /\ pollCounter = 0
    /\ fileLink = <<>>
    /\ recreations = 0
    /\ trace = <<>>
    /\ result = NoResult
    /\ history = <<>>
    /\ slept = 0

\* no resolve call is made at all
ResolverIdle ==
    /\ jobs = <<>>
    /\ args = [infoHash |-> "h1", hasIndex |-> FALSE, fileIndex |-> 0,
               cachedFileIds |-> [kind |-> "absent", ids |-> {}]]
    /\ InitCall

\* one resolve call on any account with any arguments
Init ==
    /\ jobs \in Accounts
    /\ args \in Arguments
    /\ InitCall
    /\ AvailIdle
    /\ NormIdle
    /\ SchedIdle
    /\ MochIdle

Next ==
    \/ StartCall
    \/ ListJobs
    \/ BestFitInfos
    \/ AddMagnet
    \/ HintSelect
    \/ GetTorrentInfo
    \/ OpenTorrent
    \/ SelectFiles
    \/ RecreateAdd
    \/ RetryInfo
    \/ Unrestrict

Spec == Init /\ [][Next]_vars

\* accounts and arguments of two resolve calls made in sequence
SeqAccounts ==
    {<<>>,
     <<Job("h1", "downloaded", {5, 6}, PerFileLinks(1, {5, 6}))>>,
     <<Job("h1", "downloaded", {6}, PerFileLinks(1, {6}))>>,
     <<Job("h1", "downloaded", {1, 5, 6}, << <<1, 0>> >>)>>,
     <<Job("h1", "dead", {6}, PerFileLinks(1, {6}))>>,
     <<Job("h1", "downloaded", {6}, PerFileLinks(1, {6})),
       Job("h1", "downloaded", {5, 6}, PerFileLinks(2, {5, 6}))>>}

SeqArguments ==
    {a \in Arguments :
        \/ a.hasIndex /\ a.fileIndex = 0 /\ a.cachedFileIds.kind = "ids"
        \/ a.hasIndex /\ a.fileIndex = 5 /\ a.cachedFileIds.kind = "absent"
        \/ ~a.hasIndex}

\* resolve called twice in sequence with the same arguments
SeqInit ==
    /\ jobs \in SeqAccounts
    /\ args \in SeqArguments
    /\ InitCall
    /\ AvailIdle
    /\ NormIdle
    /\ SchedIdle
    /\ MochIdle

SeqNext ==
    \/ Next
    \/ CallAgain

SeqSpec == SeqInit /\ [][SeqNext]_vars

\* accounts and arguments of the calls whose termination is studied
PollAccounts ==
    {<<>>,
     <<Job("h1", "magnet_conversion", {}, <<>>)>>,
     <<Job("h1", "waiting_files_selection", {}, <<>>)>>,
     <<Job("h1", "downloading", {5, 6}, <<>>)>>,
     <<Job("h1", "downloaded", {6}, PerFileLinks(1, {6}))>>,
     <<Job("h1", "downloaded", {6}, PerFileLinks(1, {6})),
       Job("h1", "downloaded", {5, 6}, PerFileLinks(2, {5, 6}))>>}

PollInit ==
    /\ jobs \in PollAccounts
    /\ args \in SeqArguments
    /\ InitCall
    /\ AvailIdle
    /\ NormIdle
    /\ SchedIdle
    /\ MochIdle

\* one resolve call whose pending step is always taken in the end: every
\* provider call is answered (the client's timeout is 30 s) and every delay
\* expires
PollSpec == PollInit /\ [][Next]_vars /\ WF_vars(Next)

----------------------------------------------------------------------------
(* Properties of the resolver *)

\* the provider calls of the current resolve call, by issuing function
CallsBy(by) == SelectSeq(trace, LAMBDA c : c.by = by)

\* the provider calls of the current resolve call, by provider operation
CallsOf(op) == SelectSeq(trace, LAMBDA c : c.op = op)

\* every provider call of the current resolve call was answered without error
AllAnswered == \A i \in 1..Len(trace) : trace[i].out = 0

\* the status _resolve read for the located or created job ("" before)
StatusRead ==
    LET reads == SelectSeq(trace, LAMBDA c : c.by = "_resolve" /\ c.out = 0)
    IN  IF reads = <<>> THEN "" ELSE reads[1].status

\* C3: within one resolve call, a code 19 answer to unrestrict is followed
\* by a job recreation (an add-magnet call) at most once.
C3_RecreatesAtMostOnce ==
    Cardinality({i \in 1..Len(trace) :
                    /\ trace[i].op = "unrestrict"
                    /\ trace[i].out = 19
                    /\ \E k \in (i + 1)..Len(trace) : trace[k].op = "add"}) <= 1

\* C4: when the job read by resolve is Erred and the provider answers every
\* call, the call ends after exactly one recreation (one add-magnet and one
\* select-files) with a URL or a PendingReason, never with a rejection.
C4_ErredRecreatedOnce ==
    (pc = "done" /\ StatusRead = "error" /\ AllAnswered)
        => /\ result.kind # "rejected"
           /\ Len(CallsOf("add")) = 1
           /\ Len(CallsOf("select")) = 1

\* C5: when resolve reads the job in WaitingSelection, its select-files call
\* carries exactly the id fileIndex + 1 when fileIndex is an integer, and
\* exactly the ids of the video files over 5 MB when fileIndex is absent.
C5_SelectsRequestedFile ==
    (pc = "done" /\ StatusRead = "waiting_files_selection")
        => \A i \in 1..Len(trace) :
              trace[i].by = "_selectTorrentFiles"
                => trace[i].ids =
                      IF args.hasIndex THEN {args.fileIndex + 1}
                      ELSE {f \in FileIds : /\ TorrentFiles[f].ext \in {"mkv", "mp4", "avi"}
                                            /\ TorrentFiles[f].bytes > 5 * 1024 * 1024}

\* one step of the poll loop of _openTorrent, as C6 states it
C6_PollStep ==
    [][/\ (pc = "open" /\ pc' = "open")
            => /\ pollCounter < 15
               /\ pollCounter' = pollCounter + 1
               /\ slept = 2000 * pollCounter
               /\ slept' = slept + 2000
               /\ jobs'[torrentId].status = "magnet_conversion"
       /\ (pc = "open" /\ jobs'[torrentId].status # "magnet_conversion")
            => pc' # "open"
       /\ (pc = "open" /\ pollCounter >= 15)
            => pc' # "open"
       /\ (pc = "open" /\ selCtx = "resolve" /\ pc' # "open"
           /\ jobs'[torrentId].status = "magnet_conversion")
            => (pc' = "done" /\ result' = Pending("FAILED_OPENING"))
      ]_vars

E2ECreateArgs ==
    /\ args.hasIndex
    /\ args.fileIndex = 0
    /\ args.cachedFileIds = [kind |-> "ids", ids |-> {5, 6}]

\* the listing succeeded and showed no job of the requested torrent
NoMatchingJob ==
    /\ Len(trace) >= 2
    /\ trace[1].op = "list"
    /\ trace[1].out = 0
    /\ trace[2].by = "_createTorrentId"

C7_WitnessNoHint ==
    /\ args.cachedFileIds.kind = "null"
    /\ Len(trace) >= 3
    /\ trace[2].by = "_createTorrentId"
    /\ trace[3].by = "_resolve"

\* the end-to-end ready scenario: the listing located a job of the torrent,
\* resolve read it Ready, file 6 is selected (alone or with file 5) and the
\* job has its link at link position 0; the provider answered every call,
\* and any unrestrict with a download that is no archive
ReadyScenario ==
    /\ Len(trace) >= 2
    /\ CallsBy("_createTorrentId") = <<>>
    /\ AllAnswered
    /\ StatusRead \in {"downloaded", "dead"}
    /\ LET job == jobs[CallsBy("_resolve")[1].job]
       IN  /\ job.selected \in {{5, 6}, {6}}
           /\ Len(job.links) = 1
           /\ job.links[1] # <<>>
    /\ \A i \in 1..Len(trace) : trace[i].op = "unrestrict" => trace[i].status = "mkv"

\* the link at link position 0 of the job resolve read
ReadyLink == jobs[CallsBy("_resolve")[1].job].links[1]

\* C8 as stated: in the ready scenario with fileIndex 0, resolve returns the
\* URL unrestricted for the link at position 0 and creates no job.
C8_ReadyPathFileIndex0 ==
    (pc = "done" /\ ReadyScenario /\ args.hasIndex /\ args.fileIndex = 0)
        => /\ result = Url(ReadyLink)
           /\ CallsOf("add") = <<>>

\* C8 amended: in the ready scenario, when the call's target is file 6
\* (fileIndex 5, or no fileIndex, file 6 being the largest selected file),
\* resolve issues one unrestrict for the link at position 0, returns its URL
\* and creates no job; with fileIndex 0 the target is file 1, which is not
\* selected, so resolve creates a new job and returns no URL.
C8_ReadyPath ==
    /\ (pc = "done" /\ ReadyScenario
        /\ (~args.hasIndex \/ args.fileIndex = 5))
        => /\ result = Url(ReadyLink)
           /\ CallsOf("add") = <<>>
           /\ Len(CallsOf("unrestrict")) = 1
           /\ CallsOf("unrestrict")[1].link = ReadyLink
    /\ (pc = "done" /\ ReadyScenario /\ args.hasIndex /\ args.fileIndex = 0)
        => /\ result.kind # "url"
           /\ Len(CallsOf("add")) = 1
           /\ CallsOf("unrestrict") = <<>>

\* fileIndex 5: the job with files 5 and 6 selected and one link has been
\* resolved to the URL of that link
C8_Witness ==
    /\ pc = "done"
    /\ ReadyScenario
    /\ args.hasIndex
    /\ args.fileIndex = 5
    /\ jobs[CallsBy("_resolve")[1].job].selected = {5, 6}
    /\ result = Url(ReadyLink)

\* fileIndex 0: the call on the Ready job has recreated it and returned
\* DOWNLOADING
C8_WitnessFileIndex0 ==
    /\ pc = "done"
    /\ ReadyScenario
    /\ args.hasIndex
    /\ args.fileIndex = 0
    /\ result = Pending("DOWNLOADING")

\* C9 as stated: every resolve call ends with a URL, a PendingReason or a
\* rejection, and a provider call answered with code 9 or 20 makes the call
\* return FAILED_ACCESS.
C9_AccessDeniedFromAnyCall ==
    pc = "done"
        => /\ result.kind \in {"url", "pending", "rejected"}
           /\ (\E i \in 1..Len(trace) : trace[i].out \in {9, 20})
                => result = Pending("FAILED_ACCESS")

\* C9 amended: every resolve call ends with exactly one of a URL, a
\* PendingReason or a rejection.  A code 9 or 20 answer to the listing or to
\* a job-info call of the best-fit lookup is dropped and the call goes on to
\* create a job; a code 9 or 20 answer to the poll or the select-files of a
\* job resolve read in Opening or WaitingSelection ends the call with
\* FAILED_OPENING; a code 9 or 20 answer to any other provider call ends the
\* call with FAILED_ACCESS.  A rejection never follows a call answered with
\* code 9 or 20 directly.
C9_AccessDenied ==
    /\ pc = "done"
        => /\ result.kind \in {"url", "pending", "rejected"}
           /\ (result.kind = "url") = (result.url # <<>>)
           /\ (result.kind = "pending") = (result.reason \in
                  {"DOWNLOADING", "FAILED_ACCESS", "FAILED_OPENING",
                   "FAILED_DOWNLOAD", "FAILED_RAR"})
           /\ (result.kind = "rejected") = (result.reason = "ResolveFailed")
    /\ \A i \in 1..Len(trace) :
          trace[i].out \in {9, 20}
            => IF trace[i].by \in {"_findTorrent", "_findBestFitTorrent"}
               THEN IF trace[Len(trace)].by \in {"_findTorrent", "_findBestFitTorrent"}
                    THEN pc = "add"
                    ELSE CallsBy("_createTorrentId") # <<>>
               ELSE /\ i = Len(trace)
                    /\ pc = "done"
                    /\ result =
                         IF /\ trace[i].by \in {"_openTorrent", "_selectTorrentFiles"}
                            /\ selCtx = "resolve"
                         THEN Pending("FAILED_OPENING")
                         ELSE Pending("FAILED_ACCESS")

\* a call has returned FAILED_ACCESS after add-magnet was answered with
\* code 20
C9_Witness ==
    /\ pc = "done"
    /\ result = Pending("FAILED_ACCESS")
    /\ trace[Len(trace)].op = "add"
    /\ trace[Len(trace)].out = 20

\* a call went on after the listing was answered with code 9, and a call
\* has returned FAILED_OPENING after select-files was answered with code 9
C9_WitnessDropped ==
    /\ pc = "done"
    /\ trace[1].out = 9
    /\ result = Pending("FAILED_OPENING")
    /\ trace[Len(trace)].by = "_selectTorrentFiles"
    /\ trace[Len(trace)].out = 9

\* a finished call that located the job by the listing and read it Ready,
\* every provider call answered without error and any unrestrict answered
\* with a download that is no archive
OnReadyJob(h) ==
    /\ h.located
    /\ h.status \in {"downloaded", "dead"}
    /\ h.errors = 0
    /\ h.answer \in {"none", "mkv"}

\* the call's target file is selected in the job it read, and the job has
\* one link, or one link per selected file
TargetSelected(h) ==
    /\ IF args.hasIndex THEN (args.fileIndex + 1) \in h.selected
       ELSE h.selected # {}
    /\ Len(h.links) \in {1, Cardinality(h.selected)}
    /\ \A k \in 1..Len(h.links) : h.links[k] # <<>>

\* C2 as stated: each of the calls made in sequence on an account whose
\* matching job is Ready returns a URL, the same as the call before it, and
\* issues no add-magnet.
C2_SameUrlOnReadyJob ==
    \A i \in 1..Len(history) :
        OnReadyJob(history[i])
            => /\ history[i].result.kind = "url"
               /\ history[i].adds = 0
               /\ (i > 1 /\ OnReadyJob(history[i - 1]))
                    => history[i].result = history[i - 1].result

\* C2 amended: each of the calls made in sequence on an account whose
\* matching job is Ready with the call's target file selected returns a
\* URL, the same as the call before it, and issues no add-magnet; a call
\* whose target file is not selected in the Ready job issues an add-magnet
\* and returns no URL.
C2_SameUrlTwice ==
    \A i \in 1..Len(history) :
        OnReadyJob(history[i])
            => /\ TargetSelected(history[i])
                    => /\ history[i].result.kind = "url"
                       /\ history[i].result.url = history[i].link
                       /\ history[i].adds = 0
                       /\ (i > 1 /\ OnReadyJob(history[i - 1]))
                            => /\ history[i].result = history[i - 1].result
                               /\ history[i].job = history[i - 1].job
               /\ (args.hasIndex /\ (args.fileIndex + 1) \notin history[i].selected)
                    => /\ history[i].result.kind # "url"
                       /\ history[i].adds = 1

\* two calls in sequence have returned the same URL, neither with an
\* add-magnet
C2_Witness ==
    /\ pc = "done"
    /\ Len(history) = 2
    /\ OnReadyJob(history[1])
    /\ OnReadyJob(history[2])
    /\ history[1].result.kind = "url"
    /\ history[2].result = history[1].result
    /\ history[1].adds = 0
    /\ history[2].adds = 0

----------------------------------------------------------------------------
(* Normalisation of a provider answer into an availability record *)

\* file ids of the copies a provider may report
AvFileIds == {1, 2, 3}

\* a copy maps the ids of its files to their file names, of which the
\* extension is kept; in the answers studied only file 3 may be a file that
\* is no video
Copies ==
    {c \in UNION {[S -> {"mkv", "nfo"}] : S \in SUBSET AvFileIds} :
        \A i \in DOMAIN c : c[i] = "nfo" => i = 3}

RECURSIVE SeqsUpTo(_, _)
\* the sequences over S of length at most n
SeqsUpTo(S, n) ==
    IF n = 0 THEN {<<>>}
    ELSE LET shorter == SeqsUpTo(S, n - 1)
         IN  shorter \cup {Append(q, x) : q \in {r \in shorter : Len(r) = n - 1}, x \in S}

\* the answers of the provider for one hash: null, an array (the torrent is
\* not cached), or an object that maps hosters to lists of copies
HosterResults ==
    {[kind |-> "null", hosters |-> <<>>], [kind |-> "array", hosters |-> <<>>]}
    \cup {[kind |-> "object", hosters |-> <<q>>] : q \in SeqsUpTo(Copies, MaxCopies)}
    \cup {[kind |-> "object", hosters |-> <<SubSeq(q, 1, 1), SubSeq(q, 2, Len(q))>>] :
            q \in {r \in SeqsUpTo(Copies, MaxCopies) : Len(r) >= 2}}
    \cup {[kind |-> "object", hosters |-> <<>>]}

RECURSIVE Concat(_)
\* Object.values(hosterResults).reduce((a, b) => a.concat(b), [])
Concat(lists) ==
    IF lists = <<>> THEN <<>> ELSE Head(lists) \o Concat(Tail(lists))

\* a copy with at least one video file
allVideo_some(cached) ==
    \E i \in DOMAIN cached : isVideo(cached[i])

\* a copy with at least one file, all of them video files
allVideo(cached) ==
    /\ DOMAIN cached # {}
    /\ \A i \in DOMAIN cached : isVideo(cached[i])

RECURSIVE sortByLengthDesc(_)
\* .sort((a, b) => b.length - a.length): descending by number of ids, groups
\* of equal length in their original order (Array.prototype.sort is stable)
sortByLengthDesc(groups) ==
    IF groups = <<>> THEN <<>>
    ELSE LET n == Len(groups)
             x == groups[n]
             sorted == sortByLengthDesc(SubSeq(groups, 1, n - 1))
             before == Cardinality({k \in 1..Len(sorted) :
                                        Cardinality(sorted[k]) >= Cardinality(x)})
         IN  SubSeq(sorted, 1, before) \o <<x>> \o SubSeq(sorted, before + 1, Len(sorted))

\* the filter of getCachedIds without the test against group 0
notDominated_keepAll(sorted, k) == TRUE

\* .filter((cached, index, array) => index === 0 ||
\*         cached.some(id => !array[0].includes(id)))
notDominated(sorted, k) ==
    \/ k = 1
    \/ \E id \in sorted[k] : id \notin sorted[1]

RECURSIVE Keep(_, _, _)
\* the groups of `sorted` from position k on that pass the filter
Keep(sorted, all, k) ==
    IF k > Len(sorted) THEN <<>>
    ELSE (IF notDominated(all, k) THEN <<sorted[k]>> ELSE <<>>) \o Keep(sorted, all, k + 1)

\* getCachedIds: the availability record of one hash, a list of groups of
\* file ids
getCachedIds(hr) ==
    IF hr.kind \in {"null", "array"} THEN <<>>
    ELSE LET copies == Concat(hr.hosters)
             videos == SelectSeq(copies, allVideo)
             keys == [k \in 1..Len(videos) |-> DOMAIN videos[k]]
             sorted == sortByLengthDesc(keys)
         IN  Keep(sorted, sorted, 1)

\* the resolver and the availability client stay as they are
NormFrame == UNCHANGED <<resolveVars, hashes, avPc, retries, maxChunkSize,
                         cachedResults, hashBatches, answers, avCalls, avCaught,
                         avResult, schedVars, mochVars>>

\* processAvailabilityResults on the answer for one hash
ProcessAvailabilityResults ==
    /\ normPc = "idle"
    /\ cachedIds' = getCachedIds(hosterResults)
    /\ normPc' = "processed"
    /\ UNCHANGED <<hosterResults, avCache>>
    /\ NormFrame

\* cacheAvailabilityResults: the record is written to the cache
CacheResults ==
    /\ normPc = "processed"
    /\ avCache' = [avCache EXCEPT !["h1"] = Entry(cachedIds)]
    /\ normPc' = "cached"
    /\ UNCHANGED <<hosterResults, cachedIds>>
    /\ NormFrame

\* the provider's answer for hash h1 is any of HosterResults
NormInit ==
    /\ ResolverIdle
    /\ AvailIdle
    /\ SchedIdle
    /\ MochIdle
    /\ hosterResults \in HosterResults
    /\ cachedIds = <<>>
    /\ normPc = "idle"

NormNext ==
    \/ ProcessAvailabilityResults
    \/ CacheResults

NormSpec == NormInit /\ [][NormNext]_vars

\* group 0 is a largest group and no later group is a subset of group 0
RecordInvariant(groups) ==
    \A k \in 1..Len(groups) :
        /\ Cardinality(groups[k]) <= Cardinality(groups[1])
        /\ k >= 2 => ~(groups[k] \subseteq groups[1])

\* the answer holds two copies: one with video files only, and one whose
\* file ids are a strict subset of the first one's
CopyAndStrictSubset ==
    /\ hosterResults.kind = "object"
    /\ LET copies == Concat(hosterResults.hosters)
       IN  /\ Len(copies) = 2
           /\ \E a, b \in 1..2 :
                /\ a # b
                /\ DOMAIN copies[a] # {}
                /\ \A i \in DOMAIN copies[a] : copies[a][i] = "mkv"
                /\ DOMAIN copies[b] \subseteq DOMAIN copies[a]
                /\ DOMAIN copies[b] # DOMAIN copies[a]

\* C1: every record getCachedIds produces, and every record in the
\* availability cache, has a largest group at index 0 and no later group
\* that is a subset of group 0; an answer with one all-video copy and a
\* second copy whose ids are a strict subset of it gives exactly one group.
C1_RecordInvariant ==
    /\ normPc # "idle" => RecordInvariant(cachedIds)
    /\ \A h \in Hashes : avCache[h].present => RecordInvariant(avCache[h].groups)
    /\ (normPc # "idle" /\ CopyAndStrictSubset) => Len(cachedIds) = 1

\* the record of an answer with a two-file copy and a copy holding one of
\* its files has been cached with a single group
C1_Witness ==
    /\ normPc = "cached"
    /\ CopyAndStrictSubset
    /\ avCache["h1"] = Entry(<<{1, 2}>>)

\* a record with three groups has been cached
C1_WitnessGroups ==
    /\ normPc = "cached"
    /\ avCache["h1"].present
    /\ Len(avCache["h1"].groups) = 3

----------------------------------------------------------------------------
(* The batch availability client *)

\* the default parameters of _getInstantAvailable
DefaultRetries == 3
DefaultChunkSize == 150

\* the answers of the provider for one hash in the checks studied: the
\* torrent is not cached, or it is cached in two copies
SampleAnswers ==
    {[kind |-> "array", hosters |-> <<>>],
     [kind |-> "object",
      hosters |-> << <<[i \in {1, 2} |-> "mkv"], [i \in {1} |-> "mkv"]>> >>]}

\* what the provider may answer for each hash: either answer for h1, no
\* cached copy for h2, the two copies for h3
AnswersFor(h) ==
    IF h = "h1" THEN SampleAnswers
    ELSE {a \in SampleAnswers : (a.kind = "array") <=> (h = "h2")}

\* the failures a provider call may be rejected with: an empty (falsy)
\* rejection, which is either undefined/null (nullish) or an empty body such
\* as '', the bad-token code 8, an error whose message names a timeout or a
\* DNS retry, and any other error
AvErrors ==
    {[kind |-> "empty", falsy |-> TRUE, nullish |-> TRUE, code |-> 0, transient |-> FALSE],
     [kind |-> "empty", falsy |-> TRUE, nullish |-> FALSE, code |-> 0, transient |-> FALSE],
     [kind |-> "error", falsy |-> FALSE, nullish |-> FALSE, code |-> 8, transient |-> FALSE],
     [kind |-> "error", falsy |-> FALSE, nullish |-> FALSE, code |-> 0, transient |-> TRUE],
     [kind |-> "error", falsy |-> FALSE, nullish |-> FALSE, code |-> 0, transient |-> FALSE]}

\* the error raised for a response that is no object; its message carries
\* the response text, which may be that of a 504 gateway time-out page
NonJsonError(text) ==
    [kind |-> "nonJson", falsy |-> FALSE, nullish |-> FALSE, code |-> 0,
     transient |-> text = "504 Gateway Time-out"]

\* the TypeError of Object.entries(null) in processAvailabilityResults
NullResponseError ==
    [kind |-> "nullResponse", falsy |-> FALSE, nullish |-> FALSE, code |-> 0,
     transient |-> FALSE]

RECURSIVE chunkArray(_, _)
\* chunkArray: consecutive chunks of at most `size` elements
chunkArray(arr, size) ==
    IF Len(arr) <= size THEN (IF arr = <<>> THEN <<>> ELSE <<arr>>)
    ELSE <<SubSeq(arr, 1, size)>> \o chunkArray(SubSeq(arr, size + 1, Len(arr)), size)

\* the chunk size divided by 10 and rounded down, never below 1
reducedChunkSize_floor(size) == IF size \div 10 = 0 THEN 1 ELSE size \div 10

\* Math.ceil(maxChunkSize / 10)
reducedChunkSize(size) == (size + 9) \div 10

\* getCachedAvailabilityResults: the cache entries of the given hashes
getCachedAvailabilityResults(hs, cache) ==
    [h \in Hashes |-> IF \E k \in 1..Len(hs) : hs[k] = h THEN cache[h] ELSE Absent]

\* cacheAvailabilityResults: every record of the results is written
cacheAvailabilityResults(results, cache) ==
    [h \in Hashes |-> IF results[h].present THEN results[h] ELSE cache[h]]

\* the hashes of the check and no filter on the cache entries read
missingHashes_all(hs, cached) == hs

\* hashes.filter(infoHash => !cachedResults[infoHash])
missingHashes(hs, cached) ==
    SelectSeq(hs, LAMBDA h : ~cached[h].present)

\* Object.assign(all, more): the entries of `more` replace those of `all`
assign(all, more) ==
    [h \in Hashes |-> IF more[h].present THEN more[h] ELSE all[h]]

RECURSIVE reduceAssign(_)
\* results.reduce((all, more) => Object.assign(all, more), {})
reduceAssign(results) ==
    IF results = <<>> THEN [h \in Hashes |-> Absent]
    ELSE assign(reduceAssign(SubSeq(results, 1, Len(results) - 1)),
                results[Len(results)])

\* the set of elements of a sequence
Range(seq) == {seq[k] : k \in 1..Len(seq)}

\* the resolver and the normalisation stay as they are
AvailFrame == UNCHANGED <<resolveVars, normVars, schedVars, mochVars>>

\* the check ends with the given outcome
AvEnd(kind, results) ==
    /\ avPc' = "done"
    /\ avResult' = [kind |-> kind, results |-> results]
    /\ UNCHANGED <<hashes, retries, maxChunkSize, cachedResults, hashBatches,
                   answers, avCalls>>

\* _getInstantAvailable is called again with the given parameters
AvRetry(r, size) ==
    /\ avPc' = "read"
    /\ retries' = r
    /\ maxChunkSize' = size
    /\ UNCHANGED <<hashes, cachedResults, hashBatches, answers, avCalls, avResult>>

\* the entry of avCaught for an error caught now
CaughtEntry(error) ==
    [error |-> error, size |-> maxChunkSize, retries |-> retries,
     calls |-> Len(avCalls)]

\* a catch without the test of the bad-token code
AvCatch_noBadToken(error) ==
    /\ avCaught' = Append(avCaught, CaughtEntry(error))
    /\ IF error.falsy /\ maxChunkSize # 1
       THEN AvRetry(retries - 1, reducedChunkSize(maxChunkSize))
       ELSE IF retries > 0 /\ error.transient
       THEN AvRetry(retries - 1, DefaultChunkSize)
       ELSE IF error.nullish
       THEN AvEnd("TypeError", [h \in Hashes |-> Absent])
       ELSE AvEnd("unknown", [h \in Hashes |-> Absent])

\* a catch that retries a transient error while retries >= 0
AvCatch_retriesOffByOne(error) ==
    /\ avCaught' = Append(avCaught, CaughtEntry(error))
    /\ IF error.code = 8 THEN AvEnd("BadTokenError", [h \in Hashes |-> Absent])
       ELSE IF error.falsy /\ maxChunkSize # 1
       THEN AvRetry(retries - 1, reducedChunkSize(maxChunkSize))
       ELSE IF retries >= 0 /\ error.transient
       THEN AvRetry(retries - 1, DefaultChunkSize)
       ELSE IF error.nullish
       THEN AvEnd("TypeError", [h \in Hashes |-> Absent])
       ELSE AvEnd("unknown", [h \in Hashes |-> Absent])

\* a catch whose retry at a reduced chunk size keeps the retries
AvCatch_shrinkKeepsRetries(error) ==
    /\ avCaught' = Append(avCaught, CaughtEntry(error))
    /\ IF error.code = 8 THEN AvEnd("BadTokenError", [h \in Hashes |-> Absent])
       ELSE IF error.falsy /\ maxChunkSize # 1
       THEN AvRetry(retries, reducedChunkSize(maxChunkSize))
       ELSE IF retries > 0 /\ error.transient
       THEN AvRetry(retries - 1, DefaultChunkSize)
       ELSE IF error.nullish
       THEN AvEnd("TypeError", [h \in Hashes |-> Absent])
       ELSE AvEnd("unknown", [h \in Hashes |-> Absent])

\* the catch of _getInstantAvailable; its last statement logs error.message
\* before it returns undefined, which throws a TypeError when the error
\* caught is undefined or null
AvCatch(error) ==
    /\ avCaught' = Append(avCaught, CaughtEntry(error))
    /\ IF error.code = 8 THEN AvEnd("BadTokenError", [h \in Hashes |-> Absent])
       ELSE IF error.falsy /\ maxChunkSize # 1
       THEN AvRetry(retries - 1, reducedChunkSize(maxChunkSize))
       ELSE IF retries > 0 /\ error.transient
       THEN AvRetry(retries - 1, DefaultChunkSize)
       ELSE IF error.nullish
       THEN AvEnd("TypeError", [h \in Hashes |-> Absent])
       ELSE AvEnd("unknown", [h \in Hashes |-> Absent])

\* getCachedStreams calls _getInstantAvailable(hashes, apiKey)
GetInstantAvailable ==
    /\ avPc = "idle"
    /\ avPc' = "read"
    /\ retries' = DefaultRetries
    /\ maxChunkSize' = DefaultChunkSize
    /\ UNCHANGED <<avCache, hashes, cachedResults, hashBatches, answers, avCalls,
                   avCaught, avResult>>
    /\ AvailFrame

\* an attempt starts: the cache is read, and either every hash has an entry
\* and the entries are returned, or the missing hashes are split in batches
\* and one provider call is issued per batch, all at once
ReadCache ==
    /\ avPc = "read"
    /\ LET cached == getCachedAvailabilityResults(hashes, avCache)
           missing == missingHashes(hashes, cached)
           batches == chunkArray(missing, maxChunkSize)
       IN  /\ cachedResults' = cached
           /\ IF missing = <<>>
              THEN /\ avPc' = "done"
                   /\ avResult' = [kind |-> "results", results |-> cached]
                   /\ UNCHANGED <<hashBatches, answers, avCalls>>
              ELSE /\ avPc' = "wait"
                   /\ hashBatches' = batches
                   /\ answers' = [b \in 1..Len(batches) |->
                                    [state |-> "pending",
                                     results |-> [h \in Hashes |-> Absent]]]
                   /\ avCalls' = avCalls \o
                        [b \in 1..Len(batches) |->
                            [batch |-> batches[b],
                             uncached |-> {h \in Hashes : ~avCache[h].present},
                             size |-> maxChunkSize]]
                   /\ UNCHANGED avResult
    /\ UNCHANGED <<avCache, hashes, retries, maxChunkSize, avCaught>>
    /\ AvailFrame

\* the provider answers a batch with an object: one answer per hash, which
\* processAvailabilityResults turns into records
BatchAnswered ==
    /\ avPc = "wait"
    /\ \E b \in 1..Len(hashBatches) :
        /\ answers[b].state = "pending"
        /\ \E response \in [Range(hashBatches[b]) -> SampleAnswers] :
            /\ \A h \in DOMAIN response : response[h] \in AnswersFor(h)
            /\ answers' = [answers EXCEPT ![b] =
                [state |-> "ok",
                 results |-> [h \in Hashes |->
                                IF h \in DOMAIN response
                                THEN Entry(getCachedIds(response[h]))
                                ELSE Absent]]]
    /\ UNCHANGED <<avCache, hashes, avPc, retries, maxChunkSize, cachedResults,
                   hashBatches, avCalls, avCaught, avResult>>
    /\ AvailFrame

\* the provider answers a batch with something that is no object: the
\* attempt fails with an error naming the response
NonJsonAnswered ==
    /\ avPc = "wait"
    /\ \E b \in 1..Len(hashBatches), text \in {"504 Gateway Time-out", "Bad Gateway"} :
        /\ answers[b].state = "pending"
        /\ AvCatch(NonJsonError(text))
    /\ UNCHANGED avCache
    /\ AvailFrame

\* the provider answers a batch with null, which passes the typeof test and
\* makes processAvailabilityResults throw
NullAnswered ==
    /\ avPc = "wait"
    /\ \E b \in 1..Len(hashBatches) :
        /\ answers[b].state = "pending"
        /\ AvCatch(NullResponseError)
    /\ UNCHANGED avCache
    /\ AvailFrame

\* the provider call of a batch is rejected: the attempt fails at once,
\* whatever the other batches are answered
BatchRejected ==
    /\ avPc = "wait"
    /\ \E b \in 1..Len(hashBatches), error \in AvErrors :
        /\ answers[b].state = "pending"
        /\ AvCatch(error)
    /\ UNCHANGED avCache
    /\ AvailFrame

\* the records of the batches answered so far are merged, written to the
\* cache and returned as soon as one batch was answered
MergeResults_partial ==
    /\ avPc = "wait"
    /\ \E b \in 1..Len(hashBatches) : answers[b].state = "ok"
    /\ LET results == reduceAssign([b \in 1..Len(hashBatches) |-> answers[b].results])
       IN  /\ avCache' = cacheAvailabilityResults(results, avCache)
           /\ AvEnd("results", assign(cachedResults, results))
    /\ UNCHANGED avCaught
    /\ AvailFrame

\* every batch of the attempt was answered: the records are merged, written
\* to the cache and returned together with the entries read at the start
MergeResults ==
    /\ avPc = "wait"
    /\ \A b \in 1..Len(hashBatches) : answers[b].state = "ok"
    /\ LET results == reduceAssign([b \in 1..Len(hashBatches) |-> answers[b].results])
       IN  /\ avCache' = cacheAvailabilityResults(results, avCache)
           /\ AvEnd("results", assign(cachedResults, results))
    /\ UNCHANGED avCaught
    /\ AvailFrame

\* another request's availability check, which asked for the last hash of
\* this check, writes its record to the cache while this check waits for the
\* provider
OtherCheckCached ==
    /\ avPc = "wait"
    /\ \E h \in {hashes[Len(hashes)]} :
        /\ ~avCache[h].present
        /\ avCache' = [avCache EXCEPT ![h] = Entry(<<{1, 2}>>)]
    /\ UNCHANGED <<hashes, avPc, retries, maxChunkSize, cachedResults,
                   hashBatches, answers, avCalls, avCaught, avResult>>
    /\ AvailFrame

\* the lists of hashes checked and the cache contents at the start
AvHashLists == {<<"h1">>, <<"h1", "h2">>, <<"h1", "h2", "h3">>, <<"h3", "h1">>}

AvEntries == {Absent, Entry(<<>>), Entry(<<{1, 2}>>)}

AvailInit ==
    /\ ResolverIdle
    /\ NormIdle
    /\ SchedIdle
    /\ MochIdle
    /\ hashes \in AvHashLists
    /\ avCache \in [Hashes -> AvEntries]
    /\ \A h \in Hashes \ Range(hashes) : avCache[h] = Absent
    /\ \A h \in Hashes \ {"h1"} : avCache[h] # Entry(<<>>)
    /\ avPc = "idle"
    /\ retries = DefaultRetries
    /\ maxChunkSize = DefaultChunkSize
    /\ cachedResults = [h \in Hashes |-> Absent]
    /\ hashBatches = <<>>
    /\ answers = <<>>
    /\ avCalls = <<>>
    /\ avCaught = <<>>
    /\ avResult = [kind |-> "none", results |-> [h \in Hashes |-> Absent]]

AvailNext ==
    \/ GetInstantAvailable
    \/ ReadCache
    \/ BatchAnswered
    \/ NonJsonAnswered
    \/ NullAnswered
    \/ BatchRejected
    \/ MergeResults
    \/ OtherCheckCached

AvailSpec == AvailInit /\ [][AvailNext]_vars

----------------------------------------------------------------------------
(* Properties of the availability client *)

\* every hash of the check has an entry in the availability cache
AllCached == \A h \in Range(hashes) : avCache[h].present

\* C10: an attempt that starts with every hash of the check in the cache
\* issues no provider call and returns the cached records, and every
\* provider call an attempt issues asks only for hashes of the check that
\* had no cache entry when the attempt started.
C10_CachedHashesNotQueried ==
    [][/\ (avPc = "read" /\ avPc' # "read" /\ AllCached)
            => /\ avPc' = "done"
               /\ avCalls' = avCalls
               /\ avResult'.kind = "results"
               /\ \A h \in Range(hashes) : avResult'.results[h] = avCache[h]
       /\ \A k \in 1..Len(avCalls') :
            k > Len(avCalls)
                => /\ avPc = "read"
                   /\ Range(avCalls'[k].batch) \subseteq Range(hashes)
                   /\ \A h \in Range(avCalls'[k].batch) : ~avCache[h].present
      ]_vars

\* a check of three cached hashes has returned their records without any
\* provider call
C10_Witness ==
    /\ avPc = "done"
    /\ Len(hashes) = 3
    /\ avCalls = <<>>
    /\ avResult.kind = "results"
    /\ \A h \in Hashes : avResult.results[h].present

\* a check of h1 and h2 with h1 cached has asked the provider for h2 alone
C10_WitnessPartial ==
    /\ hashes = <<"h1", "h2">>
    /\ Len(avCalls) = 1
    /\ avCalls[1].batch = <<"h2">>
    /\ avCache["h1"].present

\* the error caught last by the check
LastCaught == avCaught[Len(avCaught)]

\* C11: when an attempt of an availability check catches a bad-token error
\* (code 8), the check ends at that step with BadTokenError, whatever the
\* retries and the chunk size of the attempt, the step issues no provider
\* call, and no provider call is issued by the check afterwards.
C11_BadTokenFailsAtOnce ==
    [][/\ (Len(avCaught') > Len(avCaught) /\ avCaught'[Len(avCaught')].error.code = 8)
            => /\ avPc' = "done"
               /\ avResult'.kind = "BadTokenError"
               /\ avCalls' = avCalls
       /\ (avCaught # <<>> /\ LastCaught.error.code = 8)
            => /\ avPc = "done"
               /\ avPc' = "done"
               /\ avCalls' = avCalls
               /\ avResult' = avResult
      ]_vars

\* a check has ended with BadTokenError in an attempt with a reduced chunk
\* size and retries used up, in which another batch had been answered
C11_Witness ==
    /\ avPc = "done"
    /\ avResult.kind = "BadTokenError"
    /\ LastCaught.error.code = 8
    /\ LastCaught.size = 1
    /\ LastCaught.retries = 0
    /\ Len(hashBatches) = 3
    /\ \E b \in 1..Len(hashBatches) : answers[b].state = "ok"

\* C12: a check whose attempts failed with no bad-token error and that has
\* ended without results has ended with 'unknown', never with a rejection.
C12_SoftFailNeverThrows ==
    (/\ avPc = "done"
     /\ avCaught # <<>>
     /\ \A k \in 1..Len(avCaught) : avCaught[k].error.code # 8
     /\ avResult.kind # "results")
        => avResult.kind = "unknown"

\* every attempt of the check so far failed with a transient network error
OnlyTransient ==
    /\ avCaught # <<>>
    /\ \A k \in 1..Len(avCaught) : avCaught[k].error.transient

\* the check has given up: it has ended without results
GaveUp == avPc = "done" /\ avResult.kind # "results"

\* C13: a check whose attempts fail with transient network errors only makes
\* at most 4 attempts (3 retries): it goes on after the first, second and
\* third failure and ends with 'unknown' at the fourth; and an error that
\* is neither transient nor empty nor a bad token ends the check with
\* 'unknown' at once, with no further provider call.
C13_TransientRetriedThreeTimes ==
    /\ OnlyTransient
        => /\ Len(avCaught) <= 4
           /\ Len(avCalls) <= 4
           /\ Len(avCaught) < 4 => ~GaveUp
           /\ Len(avCaught) = 4 => (avPc = "done" /\ avResult.kind = "unknown")
    /\ (/\ avCaught # <<>>
        /\ ~LastCaught.error.transient
        /\ ~LastCaught.error.falsy
        /\ LastCaught.error.code # 8)
        => /\ avPc = "done"
           /\ avResult.kind = "unknown"
           /\ Len(avCalls) = LastCaught.calls

\* a check has given up with 'unknown' after four attempts that failed with
\* a timeout or a DNS retry
C13_Witness ==
    /\ Len(avCaught) = 4
    /\ \A k \in 1..4 : avCaught[k].error.kind = "error" /\ avCaught[k].error.transient
    /\ Len(avCalls) = 4
    /\ avPc = "done"
    /\ avResult.kind = "unknown"

\* a check has given up at its first attempt on an error that is not transient
C13_WitnessNotRetried ==
    /\ Len(avCaught) = 1
    /\ LastCaught.error.kind = "error"
    /\ ~LastCaught.error.transient
    /\ LastCaught.error.code = 0
    /\ LastCaught.retries = 3
    /\ avResult.kind = "unknown"

\* the response of a failed attempt was malformed (no JSON object) or empty
Malformed(error) == error.falsy \/ error.kind = "nonJson"

\* the failed attempt k was followed by another attempt
Retried(k) == k < Len(avCaught) \/ ~GaveUp

\* the chunk size and the retries of the attempt that followed attempt k
NextSize(k) == IF k < Len(avCaught) THEN avCaught[k + 1].size ELSE maxChunkSize

NextRetries(k) == IF k < Len(avCaught) THEN avCaught[k + 1].retries ELSE retries

\* C14 (as claimed): after the first malformed or empty response of a check,
\* the check is retried with the chunk size divided by 10, and when that
\* retry also gets a malformed or empty response the check gives up with
\* 'unknown' without a further attempt.
C14_ReducedRetryOnce ==
    \A k \in 1..Len(avCaught) :
        (/\ Malformed(avCaught[k].error)
         /\ \A j \in 1..(k - 1) : ~Malformed(avCaught[j].error))
            => /\ Retried(k)
               /\ NextSize(k) = reducedChunkSize(avCaught[k].size)
               /\ (k < Len(avCaught) /\ Malformed(avCaught[k + 1].error))
                    => /\ k + 1 = Len(avCaught)
                       /\ avPc = "done"
                       /\ avResult.kind = "unknown"

\* C14 (amended): an empty rejection at a chunk size above 1 is followed by
\* an attempt with the chunk size divided by 10 and rounded up (150, 15, 2,
\* 1) and one retry less, whatever the retries left; an empty rejection at
\* chunk size 1 ends the check with no further provider call; a response
\* that is no JSON object is never retried at a reduced size: it is retried
\* at the default chunk size when its text names a gateway time-out and
\* retries are left, and otherwise the check gives up with 'unknown'.
C14_ReducedUntilOne ==
    \A k \in 1..Len(avCaught) :
        LET e == avCaught[k]
        IN  /\ (e.error.falsy /\ e.size # 1)
                => /\ Retried(k)
                   /\ <<e.size, NextSize(k)>> \in {<<150, 15>>, <<15, 2>>, <<2, 1>>}
                   /\ NextRetries(k) = e.retries - 1
            /\ (e.error.falsy /\ e.size = 1)
                => /\ k = Len(avCaught)
                   /\ GaveUp
                   /\ Len(avCalls) = e.calls
            /\ e.error.kind = "nonJson"
                => IF e.error.transient /\ e.retries > 0
                   THEN Retried(k) /\ NextSize(k) = 150
                                   /\ NextRetries(k) = e.retries - 1
                   ELSE /\ k = Len(avCaught)
                        /\ avPc = "done"
                        /\ avResult.kind = "unknown"
                        /\ Len(avCalls) = e.calls

\* four attempts in a row were rejected with an empty error, at the chunk
\* sizes 150, 15, 2 and 1, and the check has ended
C14_Witness ==
    /\ Len(avCaught) = 4
    /\ \A k \in 1..4 : avCaught[k].error.falsy
    /\ avCaught[1].size = 150
    /\ avCaught[4].size = 1
    /\ avPc = "done"

\* a response that is no JSON object has ended the check at its first attempt
C14_WitnessNonJson ==
    /\ Len(avCaught) = 1
    /\ LastCaught.error.kind = "nonJson"
    /\ ~LastCaught.error.transient
    /\ avPc = "done"
    /\ avResult.kind = "unknown"

\* every batch of the current attempt was answered with records
AllBatchesOk == \A b \in 1..Len(hashBatches) : answers[b].state = "ok"

\* C15: a step in which the check writes the availability cache is the merge
\* of an attempt whose batches were all answered, and it returns results; a
\* step that ends an attempt of which a batch failed leaves the cache as it
\* is and returns no results, whatever the other batches were answered.
C15_NoPartialMerge ==
    [][/\ (avCache' # avCache /\ avPc' # avPc)
            => /\ avPc = "wait"
               /\ AllBatchesOk
               /\ avResult'.kind = "results"
       /\ (avPc = "wait" /\ avPc' # "wait" /\ ~AllBatchesOk)
            => /\ avCache' = avCache
               /\ avResult'.kind # "results"
       /\ (avPc' = "done" /\ avPc # "done" /\ avResult'.kind # "results")
            => \A h \in Hashes : ~avResult'.results[h].present
      ]_vars

\* a check has given up in an attempt of three batches of which one had been
\* answered with a record that is in neither the cache nor the outcome
C15_Witness ==
    /\ avPc = "done"
    /\ avResult.kind = "unknown"
    /\ Len(hashBatches) = 3
    /\ \E b \in 1..3, h \in Hashes :
        /\ answers[b].state = "ok"
        /\ answers[b].results[h].present
        /\ ~avCache[h].present
        /\ ~avResult.results[h].present

----------------------------------------------------------------------------
(* Groups of an availability record and the copies they come from *)

\* the file ids of some copy of the answer that has files, all named .mkv
FromVideoCopy(group) ==
    /\ hosterResults.kind = "object"
    /\ \E k \in 1..Len(Concat(hosterResults.hosters)) :
        LET copy == Concat(hosterResults.hosters)[k]
        IN  /\ DOMAIN copy = group
            /\ group # {}
            /\ \A i \in group : copy[i] = "mkv"

\* C16: every group of the record computed from a provider answer, and of
\* the record written to the cache, is the set of file ids of one copy of
\* the answer that has at least one file and video files only; a copy with
\* a file that is no video, or with no files, gives no group.
C16_GroupsFromVideoCopies ==
    /\ normPc # "idle"
        => \A k \in 1..Len(cachedIds) : FromVideoCopy(cachedIds[k])
    /\ normPc = "cached"
        => \A k \in 1..Len(avCache["h1"].groups) : FromVideoCopy(avCache["h1"].groups[k])

\* the answer held a copy of three files with a file that is no video, an
\* empty copy and a copy of video file 1: the record cached is the one
\* group {1}
C16_Witness ==
    /\ normPc = "cached"
    /\ hosterResults.kind = "object"
    /\ \E k \in 1..Len(Concat(hosterResults.hosters)) :
        LET copy == Concat(hosterResults.hosters)[k]
        IN  DOMAIN copy = {1, 2, 3} /\ copy[3] = "nfo"
    /\ \E k \in 1..Len(Concat(hosterResults.hosters)) :
        DOMAIN Concat(hosterResults.hosters)[k] = {}
    /\ avCache["h1"] = Entry(<<{1}>>)

----------------------------------------------------------------------------
(* The stream handler: response cache, limiter and availability tagging *)

\* LIMIT_MAX_CONCURRENT and LIMIT_QUEUE_SIZE in the environment of the
\* deployment (0: not set)
LIMIT_MAX_CONCURRENT == 2
LIMIT_QUEUE_SIZE == 1

\* the stream requests studied: enough to fill the limiter and its queue and
\* to overflow once
MaxRequests == LIMIT_MAX_CONCURRENT + LIMIT_QUEUE_SIZE + 1

\* maxConcurrent: process.env.LIMIT_MAX_CONCURRENT || 20
maxConcurrent == IF LIMIT_MAX_CONCURRENT # 0 THEN LIMIT_MAX_CONCURRENT ELSE 20

\* a highWater that ignores the environment
highWater_default == 100

\* highWater: process.env.LIMIT_QUEUE_SIZE || 100
highWater == IF LIMIT_QUEUE_SIZE # 0 THEN LIMIT_QUEUE_SIZE ELSE 100

\* the strategy that drops the oldest queued job to make room for the new one
strategy_leak == "LEAK"

\* strategy: Bottleneck.strategy.OVERFLOW
strategy == "OVERFLOW"

\* the ids of the stream requests: an id the handler accepts and one that
\* matches neither tt\d+ nor kitsu:\d+
StreamIds == {"tt1"}

InvalidId == "x"

\* the limiter's admission of job r: it starts at once when a slot is free,
\* waits in the queue when the queue has room, and otherwise the strategy
\* decides which job is dropped
submit(q, run, r) ==
    IF Cardinality(run) < maxConcurrent /\ q = <<>>
    THEN [queue |-> q, running |-> run \cup {r}, dropped |-> {}]
    ELSE IF Len(q) < highWater
    THEN [queue |-> Append(q, r), running |-> run, dropped |-> {}]
    ELSE IF strategy = "OVERFLOW"
    THEN [queue |-> q, running |-> run, dropped |-> {r}]
    ELSE IF strategy = "LEAK"
    THEN [queue |-> Append(Tail(q), r), running |-> run, dropped |-> {Head(q)}]
    ELSE [queue |-> Append(q, r), running |-> run, dropped |-> {}]

\* the limiter when the task of job r has settled: the slot is freed and the
\* oldest queued job, if any, starts
free(q, run, r) ==
    IF q = <<>> THEN [queue |-> q, running |-> run \ {r}]
    ELSE [queue |-> Tail(q), running |-> (run \ {r}) \cup {Head(q)}]

\* one I/O performed for request r while the tasks in `run` execute
Io(r, op, run) == [req |-> r, op |-> op, slot |-> r \in run]

\* the requests after request r moved to `rec` while the limiter dropped
\* the jobs `dropped` and started those that are new in `run`: the promise
\* of a dropped job rejects, which fails its request
Moved(r, rec, run, dropped) ==
    [k \in 1..Len(reqs) |->
        IF k \in dropped THEN [reqs[k] EXCEPT !.pc = "failed", !.outcome = "dropped"]
        ELSE IF k = r THEN rec
        ELSE IF k \in run \ running THEN [reqs[k] EXCEPT !.pc = "running"]
        ELSE reqs[k]]

\* the repository queries of the tasks that start when the limiter goes to
\* the running set `run`
Started(run) == {Io(k, "repository", run) : k \in run \ running}

\* the resolver, the availability client and the normalisation stay as
\* they are
SchedFrame ==
    UNCHANGED <<resolveVars, availVars, normVars, NO_CACHE, cacheVars, mochVars>>

\* defineStreamHandler receives a stream request: an id it does not accept
\* is answered with no streams at once, which the log records as an answer
\* without I/O (request 0); any other id makes a request that goes to
\* cacheWrapStream
Received ==
    /\ \E id \in StreamIds \cup {InvalidId} :
        IF id = InvalidId
        THEN /\ ioLog' = ioLog \cup {Io(0, "none", running)}
             /\ UNCHANGED reqs
        ELSE /\ reqs' = Append(reqs, [id |-> id, pc |-> "wrap", outcome |-> ""])
             /\ UNCHANGED ioLog
    /\ UNCHANGED <<streamCache, queue, running, playPc>>
    /\ SchedFrame

\* the stream requests that fill the limiter and overflow it by one
StreamRequest ==
    /\ Len(reqs) < MaxRequests
    /\ Received

\* defineStreamHandler receives one more stream request after the limiter
\* dropped a job at its full queue
StreamRequestAfterDrop ==
    /\ Len(reqs) = MaxRequests
    /\ \E r \in 1..Len(reqs) : reqs[r].pc = "failed" /\ reqs[r].outcome = "dropped"
    /\ Received

\* cacheWrapStream: with NO_CACHE the method is called; otherwise a cached
\* stream list is returned without calling the method, and on a miss the
\* method is called. The method is limiter.schedule of the request's task.
CacheWrapStream ==
    /\ \E r \in 1..Len(reqs) :
        /\ reqs[r].pc = "wrap"
        /\ IF ~NO_CACHE /\ reqs[r].id \in streamCache
           THEN /\ reqs' = [reqs EXCEPT ![r].pc = "mochs"]
                /\ UNCHANGED <<queue, running, ioLog>>
           ELSE LET lim == submit(queue, running, r)
                    rec == [reqs[r] EXCEPT !.pc = IF r \in lim.running
                                                   THEN "running" ELSE "queued"]
                IN  /\ reqs' = Moved(r, rec, lim.running, lim.dropped)
                    /\ queue' = lim.queue
                    /\ running' = lim.running
                    /\ ioLog' = ioLog \cup Started(lim.running)
    /\ UNCHANGED <<streamCache, playPc>>
    /\ SchedFrame

\* a limiter that frees the slot of a task that resolved and keeps the slot
\* of a task that rejected
TaskSettled_slotKeptOnFailure ==
    /\ \E r \in running, ok \in BOOLEAN :
        LET lim == IF ok THEN free(queue, running, r)
                   ELSE [queue |-> queue, running |-> running]
            rec == IF ok THEN [reqs[r] EXCEPT !.pc = "mochs"]
                   ELSE [reqs[r] EXCEPT !.pc = "failed", !.outcome = "error"]
        IN  /\ reqs' = Moved(r, rec, lim.running, {})
            /\ queue' = lim.queue
            /\ running' = lim.running
            /\ ioLog' = ioLog \cup Started(lim.running)
            /\ streamCache' = IF ok /\ ~NO_CACHE
                              THEN streamCache \cup {reqs[r].id} ELSE streamCache
    /\ UNCHANGED playPc
    /\ SchedFrame

\* a response cache that stores a stream list for the id of a task whether
\* the task resolved or rejected
TaskSettled_storesFailure ==
    /\ \E r \in running, ok \in BOOLEAN :
        LET lim == free(queue, running, r)
            rec == IF ok THEN [reqs[r] EXCEPT !.pc = "mochs"]
                   ELSE [reqs[r] EXCEPT !.pc = "failed", !.outcome = "error"]
        IN  /\ reqs' = Moved(r, rec, lim.running, {})
            /\ queue' = lim.queue
            /\ running' = lim.running
            /\ ioLog' = ioLog \cup Started(lim.running)
            /\ streamCache' = IF ~NO_CACHE
                              THEN streamCache \cup {reqs[r].id} ELSE streamCache
    /\ UNCHANGED playPc
    /\ SchedFrame

\* the task of a request settles: streamHandler's repository query resolved
\* and its records were sorted and mapped, or it rejected. The limiter frees
\* the slot and starts the oldest queued job; a resolved stream list is
\* stored in the response cache and the request goes on to applyMochs, a
\* rejection fails the request.
TaskSettled ==
    /\ \E r \in running, ok \in BOOLEAN :
        LET lim == free(queue, running, r)
            rec == IF ok THEN [reqs[r] EXCEPT !.pc = "mochs"]
                   ELSE [reqs[r] EXCEPT !.pc = "failed", !.outcome = "error"]
        IN  /\ reqs' = Moved(r, rec, lim.running, {})
            /\ queue' = lim.queue
            /\ running' = lim.running
            /\ ioLog' = ioLog \cup Started(lim.running)
            /\ streamCache' = IF ok /\ ~NO_CACHE
                              THEN streamCache \cup {reqs[r].id} ELSE streamCache
    /\ UNCHANGED playPc
    /\ SchedFrame

\* applyMochs after the stream list was filtered and sorted: the streams are
\* tagged by an availability check at the provider (getCachedStreams) and
\* the request is answered
ApplyMochs ==
    /\ \E r \in 1..Len(reqs) :
        /\ reqs[r].pc = "mochs"
        /\ ioLog' = ioLog \cup {Io(r, "instantAvailability", running)}
        /\ reqs' = [reqs EXCEPT ![r] = [@ EXCEPT !.pc = "done", !.outcome = "streams"]]
    /\ UNCHANGED <<streamCache, queue, running, playPc>>
    /\ SchedFrame

\* a play request: resolve creates its provider client and starts with the
\* listing of the account's jobs; it is request 0 of the log
ResolveRequest ==
    /\ playPc = "idle"
    /\ playPc' = "resolving"
    /\ ioLog' = ioLog \cup {Io(0, "listJobs", running)}
    /\ UNCHANGED <<streamCache, reqs, queue, running>>
    /\ SchedFrame

\* the stream handler of a deployment with or without NO_CACHE and with an
\* empty response cache
SchedInit ==
    /\ ResolverIdle
    /\ AvailIdle
    /\ NormIdle
    /\ MochIdle
    /\ CacheIdle
    /\ streamCache = {}
    /\ NO_CACHE \in BOOLEAN
    /\ reqs = <<>>
    /\ queue = <<>>
    /\ running = {}
    /\ playPc = "idle"
    /\ ioLog = {}

SchedNext ==
    \/ StreamRequest
    \/ StreamRequestAfterDrop
    \/ CacheWrapStream
    \/ TaskSettled
    \/ ApplyMochs
    \/ ResolveRequest

SchedSpec == SchedInit /\ [][SchedNext]_vars

\* the stream requests alone
StreamNext ==
    \/ StreamRequest
    \/ CacheWrapStream
    \/ TaskSettled
    \/ ApplyMochs

\* every task that executes settles and every request is handled on
SchedFairSpec == SchedInit /\ [][StreamNext]_vars /\ WF_vars(StreamNext)

----------------------------------------------------------------------------
(* Properties of the limiter and of the stream handler *)

\* the limiter executes as many tasks as it may and its queue is full
LimiterFull ==
    /\ Cardinality(running) = LIMIT_MAX_CONCURRENT
    /\ Len(queue) = LIMIT_QUEUE_SIZE

\* request r was dropped by the limiter
Dropped(r) == reqs[r].pc = "failed" /\ reqs[r].outcome = "dropped"

\* C17: a request whose task is submitted while the limiter executes N tasks
\* and N's queue holds M jobs is rejected in that step: it is not queued and
\* not started, the running tasks, the queue and every other request stay
\* as they are, no I/O is performed; and a dropped request stays dropped.
C17_OverflowRejected ==
    [][\A r \in 1..Len(reqs) :
        /\ (/\ LimiterFull
            /\ reqs[r].pc = "wrap"
            /\ reqs'[r].pc \notin {"wrap", "mochs"})
            => /\ Dropped(r)'
               /\ queue' = queue
               /\ running' = running
               /\ \A k \in 1..Len(reqs) : k # r => reqs'[k] = reqs[k]
               /\ ioLog' = ioLog
        /\ Dropped(r)
            => /\ Dropped(r)'
               /\ r \notin running'
               /\ \A k \in 1..Len(queue') : queue'[k] # r
      ]_vars

\* a request was dropped and the limiter still executes N tasks and holds M
\* queued jobs, all submitted before it
C17_Witness ==
    /\ LimiterFull
    /\ \E r \in 1..Len(reqs) :
        /\ Dropped(r)
        /\ \A k \in running : k < r
        /\ \A k \in 1..Len(queue) : queue[k] < r

\* C18: at most N tasks execute and at most M jobs wait in the queue, N and
\* M being the limits the deployment sets; the tasks executing and the jobs
\* queued are those of the requests at these positions.
C18_LimiterBounds ==
    /\ Cardinality(running) <= LIMIT_MAX_CONCURRENT
    /\ Len(queue) <= LIMIT_QUEUE_SIZE
    /\ running = {r \in 1..Len(reqs) : reqs[r].pc = "running"}
    /\ {queue[k] : k \in 1..Len(queue)} = {r \in 1..Len(reqs) : reqs[r].pc = "queued"}

\* N tasks execute and M jobs wait while a further request is about to be
\* submitted
C18_Witness ==
    /\ LimiterFull
    /\ \E r \in 1..Len(reqs) : reqs[r].pc = "wrap"
    /\ \A r \in 1..Len(reqs) : ~Dropped(r)

\* the provider calls of the log
ProviderOps == {"instantAvailability", "listJobs"}

\* C19: every provider call is performed for a request whose task is
\* executing in the limiter at that time.
C19_ProviderIoHoldsSlot ==
    \A e \in ioLog : e.op \in ProviderOps => e.slot

\* C20 (step): when the task of request r settles, resolved or rejected, r
\* leaves the running set; with an empty queue the running count decreases
\* by one, otherwise the oldest queued job takes the slot; and a job leaves
\* the queue only to start.
C20_Release ==
    /\ \A r \in running :
        reqs'[r].pc # "running"
            => /\ r \notin running'
               /\ queue = <<>> => Cardinality(running') = Cardinality(running) - 1
               /\ queue # <<>> => /\ Head(queue) \in running'
                                  /\ queue' = Tail(queue)
                                  /\ Cardinality(running') = Cardinality(running)
    /\ \A k \in 1..Len(queue) :
        (\A j \in 1..Len(queue') : queue'[j] # queue[k]) => queue[k] \in running'

\* C20: every settled task frees its slot and a queued job leaves the queue
\* only to start; and with the requests all received, the running count and
\* the queue eventually are empty for good, so every queued request has
\* started.
C20_SlotsReleased ==
    /\ [][C20_Release]_vars
    /\ <>[](running = {} /\ queue = <<>>)

\* every request was received, one was dropped at a full queue, one failed
\* in its task, and no task executes any more
C20_Witness ==
    /\ Len(reqs) = MaxRequests
    /\ running = {}
    /\ queue = <<>>
    /\ \E r \in 1..Len(reqs) : Dropped(r)
    /\ \E r \in 1..Len(reqs) : reqs[r].pc = "failed" /\ reqs[r].outcome = "error"
    /\ \E r \in 1..Len(reqs) : reqs[r].pc = "done"

\* request r failed: its task rejected or the limiter dropped its job
Failed(r) == reqs[r].pc = "failed"

\* request r was handed to the limiter: its task executes, waits in the
\* queue or was dropped
Submitted(r) == reqs[r].pc \in {"running", "queued"} \/ Dropped(r)

\* the stream list of request r was computed or read from the response cache
Served(r) == reqs[r].pc \in {"mochs", "done"}

\* C31 (step): a step in which a request fails, by a rejected task or by a
\* job dropped at a full queue, leaves the response cache as it is; and a
\* request that is wrapped while its id is not in the response cache is
\* handed to the limiter, never served, and its repository query is
\* performed when its task starts.
C31_Step ==
    \A r \in 1..Len(reqs) :
        /\ (~Failed(r) /\ Failed(r)') => streamCache' = streamCache
        /\ (/\ reqs[r].pc = "wrap"
            /\ reqs[r].id \notin streamCache
            /\ reqs'[r].pc # "wrap")
            => /\ Submitted(r)'
               /\ ~Served(r)'
               /\ r \in running' => Io(r, "repository", running') \in ioLog'

\* C31: a stream-list computation that fails, a job dropped at a full queue
\* included, stores nothing in the response cache: the cache holds an id
\* only when the list of a request for that id was computed, so after
\* failures alone the id is a miss and the next request for it is handed to
\* the limiter and computed again.
C31_FailureNotCached ==
    /\ [][C31_Step]_vars
    /\ [](\A id \in streamCache :
            /\ ~NO_CACHE
            /\ \E r \in 1..Len(reqs) : reqs[r].id = id /\ Served(r))

\* with the cache in use, a task rejected and a job was dropped at a full
\* queue, no list was computed, the response cache is empty, and the request
\* received after the drop was handed to the limiter: its task executes and
\* its repository query was performed
C31_Witness ==
    /\ ~NO_CACHE
    /\ streamCache = {}
    /\ \E r, k \in 1..Len(reqs) :
        /\ Dropped(r)
        /\ k = MaxRequests + 1
        /\ reqs[k].id = reqs[r].id
        /\ reqs[k].pc = "running"
        /\ \E e \in ioLog : e.req = k /\ e.op = "repository"
    /\ \E r \in 1..Len(reqs) : Failed(r) /\ reqs[r].outcome = "error"
    /\ \A r \in 1..Len(reqs) : ~Served(r)

\* with the cache in use and after a task rejected, nothing executes or
\* waits, the response cache is empty, and a further request for the same
\* id is about to be wrapped
C31_WitnessNextRequest ==
    /\ ~NO_CACHE
    /\ streamCache = {}
    /\ running = {}
    /\ queue = <<>>
    /\ \E r, k \in 1..Len(reqs) :
        /\ Failed(r)
        /\ reqs[r].outcome = "error"
        /\ reqs[k].pc = "wrap"
        /\ reqs[k].id = reqs[r].id

----------------------------------------------------------------------------
(* The cache module: cacheWrap on the stream cache and on the url cache *)

\* the calls of cacheWrap and the advances of the clock studied
MaxWraps == 3
MaxElapse == 1

\* STREAM_TTL and STREAM_EMPTY_TTL (environment not set) and
\* RESOLVED_URL_TTL, in seconds
STREAM_TTL == 4 * 60 * 60
STREAM_EMPTY_TTL == 30 * 60
RESOLVED_URL_TTL == 60

CacheNames == {"stream", "resolved"}

\* the keys wrapped in each cache: two catalog ids, one resolved stream
KeysOf(c) == IF c = "stream" THEN CacheKeys ELSE {"k1"}

\* what the method of call i resolves with: an empty list, or the list (for
\* the url cache: the url) that this call alone derives
ComputedValues(i) == {<<>>, <<i>>}

\* initiateRemoteCache: null with NO_CACHE, a cache otherwise
initiateRemoteCache == IF NO_CACHE THEN NoCache ELSE NewCache

\* initiateMemoryCache
initiateMemoryCache == NewCache

\* the cache behind cacheWrapStream and cacheWrapResolvedUrl
CacheOf(c) == IF c = "stream" THEN remoteCache ELSE memoryCache

\* a cacheWrap that always calls the method
passThrough_always(cache) == TRUE

\* a cacheWrap that calls the method only when there is no cache
passThrough_onlyNullCache(cache) == ~cache.created

\* cacheWrap: NO_CACHE || !cache, the method is called and nothing else
passThrough(cache) == NO_CACHE \/ ~cache.created

\* a ttl option that stores every list for the long time
streamTtl_alwaysLong(list) == STREAM_TTL

\* the ttl option of cacheWrapStream
streamTtl(list) == IF Len(list) # 0 THEN STREAM_TTL ELSE STREAM_EMPTY_TTL

\* the ttl option of cacheWrap by cache
ttlOf(c, value) == IF c = "stream" THEN streamTtl(value) ELSE RESOLVED_URL_TTL

\* an entry is served until its ttl has elapsed
Live(entry, t) == entry.present /\ t < entry.createdAt + entry.ttl

\* the store's set: the entry of the key is overwritten
store(cache, key, value, ttl, t) ==
    [cache EXCEPT !.entries[key] =
        [present |-> TRUE, value |-> value, createdAt |-> t, ttl |-> ttl]]

\* a call of cacheWrap
WrapCall(c, key, pcv, invoked, bypass, value) ==
    [cache |-> c, key |-> key, pc |-> pcv, invoked |-> invoked,
     bypass |-> bypass, result |-> value]

CacheFrame ==
    UNCHANGED <<resolveVars, availVars, normVars, streamCache, NO_CACHE,
                reqs, queue, running, playPc, ioLog, mochVars>>

\* cacheWrapStream or cacheWrapResolvedUrl is called: cacheWrap calls the
\* method at once when caching is off; otherwise cache.wrap reads the key,
\* returns the value of a live entry without calling the method, and calls
\* the method on a miss
CacheWrap ==
    /\ Len(wraps) < MaxWraps
    /\ \E c \in CacheNames : \E key \in KeysOf(c) :
        IF passThrough(CacheOf(c))
        THEN /\ wraps' = Append(wraps, WrapCall(c, key, "computing", 1, TRUE, <<>>))
             /\ UNCHANGED cacheLog
        ELSE /\ cacheLog' = cacheLog \cup {[cache |-> c, op |-> "get", key |-> key]}
             /\ IF Live(CacheOf(c).entries[key], now)
                THEN wraps' = Append(wraps, WrapCall(c, key, "done", 0, FALSE,
                                             CacheOf(c).entries[key].value))
                ELSE wraps' = Append(wraps, WrapCall(c, key, "computing", 1, FALSE, <<>>))
    /\ UNCHANGED <<remoteCache, memoryCache, now>>
    /\ CacheFrame

\* the method of a call resolves: cache.wrap stores the value under the key
\* with the ttl of the call's options and the call returns it; a call that
\* went past the cache returns it and stores nothing
MethodResolved ==
    /\ \E i \in 1..Len(wraps) :
        /\ wraps[i].pc = "computing"
        /\ \E value \in ComputedValues(i) :
            LET c == wraps[i].cache
                key == wraps[i].key
            IN  /\ wraps' = [wraps EXCEPT ![i] = [@ EXCEPT !.pc = "done",
                                                          !.result = value]]
                /\ IF wraps[i].bypass
                   THEN UNCHANGED <<remoteCache, memoryCache, cacheLog>>
                   ELSE /\ cacheLog' = cacheLog \cup
                                {[cache |-> c, op |-> "set", key |-> key]}
                        /\ IF c = "stream"
                           THEN /\ remoteCache' = store(remoteCache, key, value,
                                                        ttlOf(c, value), now)
                                /\ UNCHANGED memoryCache
                           ELSE /\ memoryCache' = store(memoryCache, key, value,
                                                        ttlOf(c, value), now)
                                /\ UNCHANGED remoteCache
    /\ UNCHANGED now
    /\ CacheFrame

\* the method of a call rejects: the call rejects and nothing is stored
MethodRejected ==
    /\ \E i \in 1..Len(wraps) :
        /\ wraps[i].pc = "computing"
        /\ wraps' = [wraps EXCEPT ![i].pc = "failed"]
    /\ UNCHANGED <<remoteCache, memoryCache, now, cacheLog>>
    /\ CacheFrame

\* the advances of the clock: the short and the long ttl of a stream list
Advances == {STREAM_EMPTY_TTL, STREAM_TTL}

\* the instants reached from instant 0 by at most n advances of the clock
RECURSIVE Instants(_)
Instants(n) ==
    IF n = 0 THEN {0}
    ELSE Instants(n - 1) \cup {t + d : t \in Instants(n - 1), d \in Advances}

\* time passes
Elapse ==
    /\ \E t \in Instants(MaxElapse) :
        /\ t - now \in Advances
        /\ now' = t
    /\ UNCHANGED <<remoteCache, memoryCache, wraps, cacheLog>>
    /\ CacheFrame

\* the cache module of a deployment with or without NO_CACHE
CacheInit ==
    /\ ResolverIdle
    /\ AvailIdle
    /\ NormIdle
    /\ MochIdle
    /\ streamCache = {}
    /\ NO_CACHE \in BOOLEAN
    /\ reqs = <<>>
    /\ queue = <<>>
    /\ running = {}
    /\ playPc = "idle"
    /\ ioLog = {}
    /\ remoteCache = initiateRemoteCache
    /\ memoryCache = initiateMemoryCache
    /\ now = 0
    /\ wraps = <<>>
    /\ cacheLog = {}

CacheNext ==
    \/ CacheWrap
    \/ MethodResolved
    \/ MethodRejected
    \/ Elapse

CacheSpec == CacheInit /\ [][CacheNext]_vars

----------------------------------------------------------------------------
(* Properties of the cache module *)

\* the entry of the call's key in the call's cache
EntryOf(call) == CacheOf(call.cache).entries[call.key]

\* C21: with caching on, a call of wrap made while a live entry exists for
\* its key returns the value of the entry and its method is never invoked;
\* a call that misses invokes its method once, and when the method resolves
\* the value is stored under the key and returned; no method is invoked a
\* second time
C21_Step ==
    /\ \A k \in 1..Len(wraps') :
        k > Len(wraps) /\ ~NO_CACHE =>
            IF Live(EntryOf(wraps'[k]), now)
            THEN /\ wraps'[k].pc = "done"
                 /\ wraps'[k].invoked = 0
                 /\ wraps'[k].result = EntryOf(wraps'[k]).value
            ELSE /\ wraps'[k].pc = "computing"
                 /\ wraps'[k].invoked = 1
    /\ \A i \in 1..Len(wraps) :
        /\ wraps'[i].invoked = wraps[i].invoked
        /\ wraps[i].pc = "computing" /\ wraps'[i].pc = "done" /\ ~NO_CACHE =>
            /\ wraps[i].invoked = 1
            /\ EntryOf(wraps[i])'.present
            /\ EntryOf(wraps[i])'.value = wraps'[i].result
            /\ Live(EntryOf(wraps[i])', now')

C21_WrapHitAndMiss == [][C21_Step]_vars

\* a second call for a key was served the value the first call computed
C21_Witness ==
    \E i, k \in 1..Len(wraps) :
        /\ i < k
        /\ wraps[i].cache = wraps[k].cache
        /\ wraps[i].key = wraps[k].key
        /\ wraps[i].pc = "done" /\ wraps[i].invoked = 1
        /\ wraps[k].pc = "done" /\ wraps[k].invoked = 0
        /\ wraps[k].result = wraps[i].result
        /\ wraps[k].result # <<>>

\* the time a stream list is kept, by the claim's rule
KeptFor(value) == IF value = <<>> THEN STREAM_EMPTY_TTL ELSE STREAM_TTL

\* C22: every entry of the stream cache is stored with the short ttl when
\* its list is empty and with the long ttl otherwise, and a call of
\* cacheWrapStream for a stored key is served from the entry exactly while
\* that time has not elapsed since the entry was stored: after the short ttl
\* an empty entry is computed again, a non-empty one of the same age is served
C22_Step ==
    /\ \A key \in CacheKeys :
        remoteCache'.entries[key].present =>
            remoteCache'.entries[key].ttl = KeptFor(remoteCache'.entries[key].value)
    /\ \A k \in 1..Len(wraps') :
        /\ k > Len(wraps)
        /\ wraps'[k].cache = "stream"
        /\ remoteCache.entries[wraps'[k].key].present
        /\ ~NO_CACHE
        => LET e == remoteCache.entries[wraps'[k].key]
           IN  (wraps'[k].invoked = 0 /\ wraps'[k].result = e.value)
                   <=> now < e.createdAt + KeptFor(e.value)

C22_TtlByValue == [][C22_Step]_vars

\* an empty and a non-empty list were stored at the same time, the short ttl
\* has elapsed, and a call for the non-empty one is served from its entry
\* while the empty entry is gone
C22_Witness ==
    /\ remoteCache.entries["k1"].present /\ remoteCache.entries["k1"].value = <<>>
    /\ remoteCache.entries["k2"].present /\ remoteCache.entries["k2"].value # <<>>
    /\ remoteCache.entries["k1"].createdAt = remoteCache.entries["k2"].createdAt
    /\ now >= remoteCache.entries["k1"].createdAt + STREAM_EMPTY_TTL
    /\ ~Live(remoteCache.entries["k1"], now)
    /\ Len(wraps) = 3
    /\ wraps[3] = WrapCall("stream", "k2", "done", 0, FALSE,
                           remoteCache.entries["k2"].value)

\* an empty list was stored, the short ttl has elapsed and the next call for
\* its key computes the list again
C22_WitnessEmptyGone ==
    /\ Len(wraps) = 2
    /\ wraps[1] = WrapCall("stream", "k1", "done", 1, FALSE, <<>>)
    /\ wraps[2] = WrapCall("stream", "k1", "computing", 1, FALSE, <<>>)
    /\ now = remoteCache.entries["k1"].createdAt + STREAM_EMPTY_TTL

\* C23: with NO_CACHE set, every call of cacheWrap on either cache invokes
\* its method, returns what the method resolved with, and no entry is ever
\* read or written in either cache
C23_NoCachePassThrough ==
    NO_CACHE =>
        /\ cacheLog = {}
        /\ \A c \in CacheNames : \A key \in CacheKeys :
            ~CacheOf(c).entries[key].present
        /\ \A i \in 1..Len(wraps) :
            /\ wraps[i].invoked = 1
            /\ wraps[i].pc = "done" => wraps[i].result \in ComputedValues(i)

\* with NO_CACHE set, two calls for the same resolved url and one for a
\* stream list each returned what its own method derived
C23_Witness ==
    /\ NO_CACHE
    /\ Len(wraps) = 3
    /\ wraps[1] = WrapCall("resolved", "k1", "done", 1, TRUE, <<1>>)
    /\ wraps[2] = WrapCall("resolved", "k1", "done", 1, TRUE, <<2>>)
    /\ wraps[3] = WrapCall("stream", "k1", "done", 1, TRUE, <<3>>)

----------------------------------------------------------------------------
(* Further properties of the resolver *)

\* the job _resolve read for the located or created job (0 before)
JobRead ==
    LET reads == SelectSeq(trace, LAMBDA c : c.by = "_resolve" /\ c.out = 0)
    IN  IF reads = <<>> THEN 0 ELSE reads[1].job

\* a finished call that read its job Ready with the file fileIndex + 1
\* listed and not selected
TargetNotSelected ==
    /\ pc = "done"
    /\ statusReady(StatusRead)
    /\ args.hasIndex
    /\ (args.fileIndex + 1) \in FileIds
    /\ (args.fileIndex + 1) \notin jobs[JobRead].selected

\* the recreation of the job was carried through: add-magnet was answered
\* with the new job and the call's last provider call is the select-files
\* of the new job, carrying the file fileIndex + 1 alone and answered ok
RecreationDone ==
    LET adds == CallsBy("_recreateTorrentId")
        last == trace[Len(trace)]
    IN  /\ Len(adds) = 1
        /\ adds[1].out = 0
        /\ last.by = "_selectTorrentFiles"
        /\ last.op = "select"
        /\ last.job = adds[1].job
        /\ last.ids = {args.fileIndex + 1}
        /\ last.out = 0

\* C25 as stated: a call that read a Ready job whose target file is not
\* selected recreates the job and returns DOWNLOADING, with no unrestrict
C25_NotSelectedReturnsDownloading ==
    TargetNotSelected =>
        /\ CallsOf("unrestrict") = <<>>
        /\ RecreationDone
        /\ result = Pending("DOWNLOADING")

\* C25 amended: a call that read a Ready job whose target file is not
\* selected issues one add-magnet for a new job and no unrestrict at all; it
\* returns DOWNLOADING exactly when the recreation was carried through
\* (add-magnet answered, the new job seen waiting for selection, select-files
\* of file fileIndex + 1 answered), and otherwise FAILED_ACCESS or a
\* rejection
C25_NotSelectedRecreates ==
    TargetNotSelected =>
        /\ CallsOf("unrestrict") = <<>>
        /\ Len(CallsBy("_recreateTorrentId")) = 1
        /\ CallsBy("_recreateTorrentId")[1].op = "add"
        /\ CallsBy("_retryCreateTorrent") = <<>>
        /\ result = Pending("DOWNLOADING") <=> RecreationDone
        /\ result \in {Pending("DOWNLOADING"), Pending("FAILED_ACCESS"), Rejected}

\* a call on a Ready job with files 5 and 6 selected asked for file 1,
\* recreated the job and returned DOWNLOADING
C25_Witness ==
    /\ TargetNotSelected
    /\ RecreationDone
    /\ result = Pending("DOWNLOADING")
    /\ jobs[JobRead].selected = {5, 6}
    /\ args.fileIndex = 0

\* the target file of the claim: file fileIndex + 1, or with no index the
\* largest of the job's selected files (0 when nothing is selected)
ClaimedTarget(job) ==
    IF args.hasIndex THEN args.fileIndex + 1
    ELSE IF job.selected = {} THEN 0
    ELSE CHOOSE f \in job.selected :
            \A g \in job.selected : TorrentFiles[g].bytes <= TorrentFiles[f].bytes

\* the position of the link the claim names: 1 for a job with one link,
\* else the place of the target among the selected files in file order
ClaimedPosition(job) ==
    IF Len(job.links) = 1 THEN 1
    ELSE CHOOSE k \in 1..Cardinality(job.selected) :
            SortedSeq(job.selected)[k] = ClaimedTarget(job)

\* there is a non-empty link at that position
ClaimedLinkExists(job) ==
    /\ ClaimedPosition(job) <= Len(job.links)
    /\ job.links[ClaimedPosition(job)] # <<>>

\* the call's last provider call is a read that showed the job Ready
EndedOnReadyRead ==
    /\ pc = "done"
    /\ trace # <<>>
    /\ trace[Len(trace)].by \in {"_resolve", "_retryCreateTorrent"}
    /\ trace[Len(trace)].out = 0
    /\ statusReady(trace[Len(trace)].status)

\* C26: on a Ready job whose target file is selected, the link handed to
\* unrestrict is the job's only link when it has exactly one, else the link
\* at the target's place among the selected files in file order; when no
\* non-empty link is at that position the call rejects with ResolveFailed
\* and no unrestrict call is made for that job
C26_LinkOfTarget ==
    /\ pc = "unrestrict" =>
        /\ ClaimedTarget(jobs[torrentId]) \in jobs[torrentId].selected
        /\ ClaimedLinkExists(jobs[torrentId])
        /\ fileLink = jobs[torrentId].links[ClaimedPosition(jobs[torrentId])]
    /\ \A i \in 1..Len(trace) :
        trace[i].op = "unrestrict" =>
            /\ ClaimedLinkExists(jobs[trace[i].job])
            /\ trace[i].link = jobs[trace[i].job].links[ClaimedPosition(jobs[trace[i].job])]
    /\ EndedOnReadyRead =>
        LET job == jobs[trace[Len(trace)].job]
        IN  /\ ClaimedTarget(job) \in job.selected
            /\ ~ClaimedLinkExists(job)
            /\ result = Rejected
            /\ \A i \in 1..Len(trace) :
                trace[i].op = "unrestrict" => trace[i].job # trace[Len(trace)].job

\* unrestrict was called with the second link of a job that has files 5 and
\* 6 selected and one link per file, the call having no fileIndex
C26_Witness ==
    /\ pc = "done"
    /\ ~args.hasIndex
    /\ \E i \in 1..Len(trace) :
        /\ trace[i].op = "unrestrict"
        /\ jobs[trace[i].job].selected = {5, 6}
        /\ Len(jobs[trace[i].job].links) = 2
        /\ trace[i].link = jobs[trace[i].job].links[2]

\* a call on a Ready job whose selected target has no link was rejected
\* without an unrestrict call
C26_WitnessNoLink ==
    /\ EndedOnReadyRead
    /\ result = Rejected
    /\ jobs[JobRead].links = <<>>
    /\ CallsOf("unrestrict") = <<>>

\* the call ended with the read of _resolve as its last provider call
EndedOnStatusRead ==
    /\ pc = "done"
    /\ trace[Len(trace)].by = "_resolve"
    /\ trace[Len(trace)].op = "info"
    /\ trace[Len(trace)].job = JobRead

\* C27: when the status _resolve reads for the located or created job is
\* downloading, uploading or queued the call returns DOWNLOADING, and when
\* it is magnet_error the call returns FAILED_OPENING; in both cases the
\* read is the call's last provider call, so no add-magnet, select-files or
\* unrestrict follows it
C27_DownloadingAndMagnetError ==
    /\ StatusRead \in {"downloading", "uploading", "queued"} =>
        /\ EndedOnStatusRead
        /\ result = Pending("DOWNLOADING")
    /\ StatusRead = "magnet_error" =>
        /\ EndedOnStatusRead
        /\ result = Pending("FAILED_OPENING")

\* a call located a job, read it uploading and returned DOWNLOADING
C27_Witness ==
    /\ pc = "done"
    /\ StatusRead = "uploading"
    /\ CallsOf("add") = <<>>
    /\ result = Pending("DOWNLOADING")

\* a call created a job, read it magnet_error and returned FAILED_OPENING
C27_WitnessMagnetError ==
    /\ pc = "done"
    /\ StatusRead = "magnet_error"
    /\ Len(CallsOf("add")) = 1
    /\ result = Pending("FAILED_OPENING")

\* the jobs of the account that match the call's infoHash, whatever the
\* case of their hash, and are in no error status
Reusable ==
    {id \in 1..Len(jobs) :
        /\ ToLowerCase(jobs[id].hash) = args.infoHash
        /\ jobs[id].status \notin {"error", "magnet_error"}}

\* the provider calls this step issued
Issued == SubSeq(trace', Len(trace) + 1, Len(trace'))

\* C30: the locate step never ends the call. When the listing is rejected,
\* a job-info call of the comparison of several matches fails, or no listed
\* job matches the infoHash without being in an error status, the call goes
\* on to add-magnet, which is its next provider call; when the locate step
\* succeeds the call goes on with a listed job that matches and is in no
\* error status, and no add-magnet was issued
C30_Step ==
    /\ pc \in {"list", "bestfit"} =>
        /\ pc' \in {"bestfit", "info", "add"}
        /\ result' = NoResult
        /\ jobs' = jobs
        /\ pc' = "add" <=>
            \/ \E i \in 1..Len(Issued) : Issued[i].out # 0
            \/ Reusable = {}
        /\ pc' = "info" =>
            /\ torrentId' \in Reusable
            /\ \A i \in 1..Len(trace') : trace'[i].op # "add"
    /\ pc = "add" =>
        /\ Len(Issued) = 1
        /\ Issued[1].op = "add"
        /\ Issued[1].by = "_createTorrentId"

C30_LocateFailureSwallowed == [][C30_Step]_vars

\* the listing was rejected with code 9 and the call went on to add-magnet
C30_Witness ==
    /\ Len(trace) >= 2
    /\ trace[1].op = "list"
    /\ trace[1].out = 9
    /\ trace[2].op = "add"
    /\ trace[2].out = 0

\* a job was located on an account whose most recent job matches the
\* infoHash and is in error
C30_WitnessErredSkipped ==
    /\ pc = "info"
    /\ Len(jobs) = 2
    /\ jobs[2].hash = "h1"
    /\ jobs[2].status = "error"
    /\ torrentId = 1
    /\ CallsOf("add") = <<>>

\* a job-info call of the comparison of two matches failed and the call
\* went on to add-magnet
C30_WitnessInfoFailed ==
    /\ pc = "add"
    /\ Len(trace) = 3
    /\ trace[1].out = 0
    /\ trace[3].by = "_findBestFitTorrent"
    /\ trace[3].out # 0

----------------------------------------------------------------------------
(* getCachedStreams: the streams of a list tagged by availability *)

\* the streams of one list
MaxStreams == 2

\* a stream of the list: its infoHash and its fileIdx, 0-based or absent
Stream(h, has, idx) == [infoHash |-> h, fileIdx |-> [has |-> has, idx |-> idx]]

StreamChoices ==
    {Stream(h, TRUE, idx) : h \in {"h1", "h2"}, idx \in {0, 5}}
    \cup {Stream(h, FALSE, 0) : h \in {"h1", "h2"}}

\* the availability records _getInstantAvailable may return for a hash: no
\* entry, no group, one group, two groups
RecordChoices ==
    {Absent, Entry(<<>>), Entry(<<{6}>>), Entry(<<{5, 6}, {1}>>),
     Entry(<<{1, 5, 6}>>), Entry(<<{2, 6}, {1, 6}>>)}

\* what _getInstantAvailable returns: undefined after a soft failure, or
\* the records by hash
AvailableChoices ==
    {[kind |-> "unknown", results |-> [h \in Hashes |-> Absent]]}
    \cup {[kind |-> "results",
           results |-> [h \in Hashes |-> IF h = "h1" THEN r1
                                         ELSE IF h = "h2" THEN r2 ELSE Absent]] :
            r1 \in RecordChoices, r2 \in RecordChoices}

\* _getCachedFileIds: the first group holding the id fileIndex + 1, or with
\* no fileIndex the first group; the empty list when there is none
getCachedFileIds(fileIndex, cachedEntry) ==
    IF ~cachedEntry.present THEN {}
    ELSE IF fileIndex.has
    THEN LET holding == {k \in 1..Len(cachedEntry.groups) :
                            (fileIndex.idx + 1) \in cachedEntry.groups[k]}
         IN  IF holding = {} THEN {}
             ELSE cachedEntry.groups[CHOOSE k \in holding : \A m \in holding : k <= m]
    ELSE IF cachedEntry.groups = <<>> THEN {}
    ELSE cachedEntry.groups[1]

\* the entry getCachedStreams writes for a stream
MochStream(stream, cachedEntry) ==
    LET fileIds == getCachedFileIds(stream.fileIdx, cachedEntry)
        cachedIdsString == IF fileIds # {} THEN [kind |-> "ids", ids |-> fileIds]
                           ELSE [kind |-> "null", ids |-> {}]
    IN  [present |-> TRUE,
         cached |-> cachedIdsString.kind # "null",
         url |-> [infoHash |-> stream.infoHash, cachedIds |-> cachedIdsString,
                  fileIdx |-> stream.fileIdx]]

RECURSIVE ReduceStreams(_, _, _)
\* streams.reduce: the entries are written by infoHash in list order
ReduceStreams(list, results, all) ==
    IF list = <<>> THEN all
    ELSE ReduceStreams(Tail(list), results,
            [all EXCEPT ![Head(list).infoHash] =
                MochStream(Head(list), results[Head(list).infoHash])])

MochFrame == UNCHANGED <<resolveVars, availVars, normVars, schedVars>>

\* getCachedStreams after _getInstantAvailable returned: undefined when it
\* returned undefined, else the map built from the streams
GetCachedStreams ==
    /\ mochPc = "available"
    /\ mochPc' = "done"
    /\ mochStreams' =
        IF available.kind = "unknown"
        THEN [kind |-> "undefined", map |-> [h \in Hashes |-> NoMoch]]
        ELSE [kind |-> "map",
              map |-> ReduceStreams(streams, available.results,
                                    [h \in Hashes |-> NoMoch])]
    /\ UNCHANGED <<streams, available>>
    /\ MochFrame

\* one call of getCachedStreams on any list of streams, _getInstantAvailable
\* having returned
MochInit ==
    /\ ResolverIdle
    /\ AvailIdle
    /\ NormIdle
    /\ SchedIdle
    /\ streams \in SeqsUpTo(StreamChoices, MaxStreams)
    /\ available \in AvailableChoices
    /\ mochStreams = [kind |-> "none", map |-> [h \in Hashes |-> NoMoch]]
    /\ mochPc = "available"

MochNext == GetCachedStreams

MochSpec == MochInit /\ [][MochNext]_vars

----------------------------------------------------------------------------
(* Properties of getCachedStreams *)

\* the groups of the availability record of a hash
GroupsOf(h) ==
    IF available.results[h].present
    THEN {available.results[h].groups[k] : k \in 1..Len(available.results[h].groups)}
    ELSE {}

\* the groups that make a stream cached: those holding the id fileIdx + 1,
\* or with no fileIdx every group
GroupsFor(stream) ==
    IF stream.fileIdx.has
    THEN {g \in GroupsOf(stream.infoHash) : (stream.fileIdx.idx + 1) \in g}
    ELSE GroupsOf(stream.infoHash)

\* the entry of the stream's hash marks it cached exactly when a group makes
\* it cached, and then carries the ids of such a group
TaggedByRecord(stream) ==
    LET entry == mochStreams.map[stream.infoHash]
    IN  /\ entry.present
        /\ entry.cached <=> GroupsFor(stream) # {}
        /\ entry.cached =>
            /\ entry.url.cachedIds.kind = "ids"
            /\ entry.url.cachedIds.ids \in GroupsFor(stream)
        /\ ~entry.cached => entry.url.cachedIds.kind = "null"

\* C28: every stream of the list is marked cached, in the entry of its
\* hash, exactly when the record of the hash has a group holding the id
\* fileIdx + 1 (or, the stream having no fileIdx, has a group at all), and
\* the url then carries the ids of such a group; after a soft failure of the
\* availability check no map is returned
C28_EveryStreamTagged ==
    mochPc = "done" =>
        IF available.kind = "unknown" THEN mochStreams.kind = "undefined"
        ELSE /\ mochStreams.kind = "map"
             /\ \A i \in 1..Len(streams) : TaggedByRecord(streams[i])

----------------------------------------------------------------------------
(* Termination of the availability check *)

\* the attempts of the current check: the first and one per error caught
\* and retried
Attempts == IF avPc \in {"idle", "done"} THEN Len(avCaught) ELSE Len(avCaught) + 1

\* the most attempts a check makes: the first, one per retry left, and the
\* three reductions of the chunk size from 150 to 1
MostAttempts == 1 + DefaultRetries + 3

\* C29: an availability check makes at most seven attempts whatever the
\* provider answers; every re-attempt lowers the retries by one, a transient
\* error setting the chunk size to 150 and an empty rejection reducing it,
\* and no re-attempt is made once the retries are 0 or less and the chunk
\* size is 1: the error caught then ends the check
C29_Step ==
    /\ Attempts' <= MostAttempts
    /\ retries' >= DefaultRetries - (MostAttempts - 1)
    /\ Len(avCaught') > Len(avCaught) =>
        /\ avPc' \in {"read", "done"}
        /\ avPc' = "read" =>
            /\ retries' = retries - 1
            /\ maxChunkSize' \in {DefaultChunkSize, 15, 2, 1}
            /\ LastCaught'.error.transient => maxChunkSize' = DefaultChunkSize
            /\ LastCaught'.error.falsy => maxChunkSize' < maxChunkSize
            /\ retries > 0 \/ maxChunkSize > 1
        /\ retries <= 0 /\ maxChunkSize = 1 => avPc' = "done"
        /\ avPc' = "done" => UNCHANGED <<retries, maxChunkSize>>

C29_BoundedAttempts == [][C29_Step]_vars

\* a check ended at its seventh attempt: three transient errors, then empty
\* rejections down to chunk size 1
C29_Witness ==
    /\ avPc = "done"
    /\ Len(avCaught) = MostAttempts
    /\ avCaught[1].error.transient
    /\ avCaught[3].error.transient
    /\ avCaught[4].error.falsy
    /\ retries = DefaultRetries - (MostAttempts - 1)
    /\ maxChunkSize = 1

====
